---- MODULE Spec2Model ----
(***************************************************************************)
(* Model of the local service of the artifact extractor:                   *)
(*   local-service/server.js            (ClaudeCodeExtractorService)       *)
(*   local-service/artifact-processor.js (ArtifactProcessor)               *)
(*   local-service/file-manager.js      (FileManager)                      *)
(*   local-service/download-monitor.js  (DownloadMonitor)                  *)
(* and of the content script of its browser extension:                     *)
(*   browser-extension/content-script.js (ClaudeArtifactExtractor)         *)
(* The filesystem is a tree of directories and files keyed by absolute     *)
(* paths (sequences of segments).  Every `await` of a filesystem call is   *)
(* a point where another request may run, so writeFile and setProjectRoot  *)
(* are modelled one awaited call per action.                               *)
(***************************************************************************)
EXTENDS Integers, Sequences, FiniteSets, TLC

\* ------------------------------------------------------------------ bounds
MaxInFlight == 2      \* requests whose awaits may interleave
MaxWrites   == 2      \* writeFile / submission calls begun in a run, one at a time
MaxRaceWrites == 3    \* submissions begun in a run whose calls interleave
MaxSetRoot  == 1      \* set-project requests begun in a run
MaxRaceSetRoot == 2   \* set-project requests begun in a run whose calls interleave
MaxCleanups == 1      \* cleanupBackups calls in a run
MaxClock    == 2      \* the clock runs 1..MaxClock (milliseconds)
MaxProcCalls == 2     \* calls of the processor's and the content script's methods
MaxPolls == 2         \* checkPendingDownloads calls whose awaits may interleave
MaxRegistered == 2    \* downloads registered in a run
MaxArtifacts == 3     \* artifact buttons found in the chat by one extraction
MaxRuns == 2          \* START_EXTRACTION messages that begin an extraction

\* null for an absolute path (projectRoot, backupDir, backupPath) and for a
\* path string; no directory of the model is called "null".
NullDir == <<"null">>

\* ------------------------------------------------------------------- paths
\* A path string: abs is "starts with '/'", segs are the '/'-separated parts.
Rel(segs) == [abs |-> FALSE, segs |-> segs]
Abs(segs) == [abs |-> TRUE, segs |-> segs]
NoPath == Rel(<<>>)

\* path.normalize / path.join on an absolute path: '.' and '' are dropped and
\* '..' removes the segment before it; '..' at '/' stays at '/'.
RECURSIVE normAbs(_, _)
normAbs(acc, segs) ==
    IF segs = <<>> THEN acc
    ELSE LET s == Head(segs) IN
         IF s = ".." THEN
             normAbs(IF acc = <<>> THEN acc ELSE SubSeq(acc, 1, Len(acc) - 1), Tail(segs))
         ELSE IF s = "." \/ s = "" THEN normAbs(acc, Tail(segs))
         ELSE normAbs(Append(acc, s), Tail(segs))

\* path.normalize on a relative path: a '..' with nothing before it is kept.
RECURSIVE normRel(_, _)
normRel(acc, segs) ==
    IF segs = <<>> THEN acc
    ELSE LET s == Head(segs) IN
         IF s = ".." THEN
             normRel(IF acc = <<>> \/ acc[Len(acc)] = ".."
                        THEN Append(acc, "..")
                        ELSE SubSeq(acc, 1, Len(acc) - 1), Tail(segs))
         ELSE IF s = "." \/ s = "" THEN normRel(acc, Tail(segs))
         ELSE normRel(Append(acc, s), Tail(segs))

pathNormalize(p) ==
    IF p.abs THEN Abs(normAbs(<<>>, p.segs)) ELSE Rel(normRel(<<>>, p.segs))

\* path.join(absoluteDir, relative)
pathJoin(dir, segs) == normAbs(<<>>, dir \o segs)

\* path.dirname / path.basename of an absolute path ('/' is its own dirname)
dirname(p) == IF p = <<>> THEN <<>> ELSE SubSeq(p, 1, Len(p) - 1)
basename(p) == IF p = <<>> THEN "" ELSE p[Len(p)]

IsPrefix(d, p) == Len(d) <= Len(p) /\ SubSeq(p, 1, Len(d)) = d
Prefixes(p) == {SubSeq(p, 1, n) : n \in 0..Len(p)}

\* FileManager.resolveFilePath: one leading slash is removed, the rest is
\* joined to the project root.  No segment is rejected.
resolveFilePath(projectRoot, filePath) ==
    pathJoin(projectRoot, filePath.segs)

\* FileManager.validateFilePath: true, or throws on '..' and on absolute
\* paths.  (The segments of the model contain ".." only as the segment "..".)
validateFilePath(filePath) ==
    LET normalizedPath == pathNormalize(filePath) IN
    ~ ((\E i \in DOMAIN normalizedPath.segs : normalizedPath.segs[i] = "..")
       \/ normalizedPath.abs)

\* --------------------------------------------------------------- contents
\* A content string is the sequence of its lines (content.split('\n')); the
\* empty string is one blank line.  A line is a path decoration in one of the
\* comment styles, ordinary code, or blank.
\*   slash  "// <token>"          hash   "# <token>"
\*   html   "<!-- <token> -->"    htmlOpen  "<!-- <token>"
\*   block  "/* <token> */"       blockOpen "/* <token>"
\*   dash   "-- <token>"          bare   "<token>"
\* indent says that white space surrounds the line.
Deco(style, path) == [style |-> style, indent |-> FALSE, path |-> path, text |-> ""]
Code(text) == [style |-> "code", indent |-> FALSE, path |-> Rel(<<>>), text |-> text]
BlankLine == [style |-> "blank", indent |-> FALSE, path |-> Rel(<<>>), text |-> ""]

\* Last segments that end in '.' followed by word characters only (\.\w+$).
\* A backup name ends in an ISO time stamp with dashes, so it does not.
WordExtSegs ==
    {"a.js", "b.js", "a.jsx", "a.tsx", "a.ts", "a.py", "a.html", "a.json", "a.css",
     "a.md", "a.xyz"}

\* The token class of the decoration patterns, [\w\-./]+\.\w+ : every
\* character of a modelled path is in the class, so the extension decides.
IsPathToken(path) ==
    path.segs # <<>> /\ path.segs[Len(path.segs)] \in WordExtSegs

\* path.extname(...).toLowerCase() of a path string
extname(path) ==
    LET b == IF path.segs = <<>> THEN "" ELSE path.segs[Len(path.segs)] IN
    CASE b \in {"a.js", "b.js"} -> ".js"
      [] b = "a.jsx" -> ".jsx"
      [] b = "a.tsx" -> ".tsx"
      [] b = "a.ts" -> ".ts"
      [] b = "a.md" -> ".md"
      [] b = "a.xyz" -> ".xyz"
      [] b = "a.js:1u" -> ".js:1u"
      [] b = "a.py" -> ".py"
      [] b = "a.html" -> ".html"
      [] b = "a.json" -> ".json"
      [] b = "a.css" -> ".css"
      [] OTHER -> ""

\* ArtifactProcessor.extractFilePathFromContent: the patterns in the order of
\* the source; each is anchored to a whole line (flag m) and String.match
\* returns the first line that matches.
pathPatterns == <<"slash", "hash", "html", "block", "hash", "dash", "bare">>

MatchesPathPattern(line, pattern) ==
    line.style = pattern /\ ~line.indent /\ IsPathToken(line.path)

extractFilePathFromContent(content) ==
    LET hits(k) == {i \in DOMAIN content : MatchesPathPattern(content[i], pathPatterns[k])}
        ks == {k \in DOMAIN pathPatterns : hits(k) # {}}
    IN IF ks = {} THEN NoPath
       ELSE LET k == CHOOSE x \in ks : \A y \in ks : x <= y
                i == CHOOSE x \in hits(k) : \A y \in hits(k) : x <= y
            IN content[i].path

\* ArtifactProcessor.removePathDecoration: only lines[0].trim() is tested; the
\* html and block patterns accept a missing closer.
decorationPatterns ==
    {"slash", "hash", "html", "htmlOpen", "block", "blockOpen", "dash", "bare"}

isDecoration(line) == line.style \in decorationPatterns /\ IsPathToken(line.path)

RECURSIVE skipBlank(_, _)
skipBlank(lines, startIndex) ==
    IF startIndex <= Len(lines) /\ lines[startIndex].style = "blank"
    THEN skipBlank(lines, startIndex + 1) ELSE startIndex

removePathDecoration(content) ==
    IF Len(content) > 0 /\ isDecoration(content[1])
    THEN LET startIndex == skipBlank(content, 2)
             rest == SubSeq(content, startIndex, Len(content))
         IN IF rest = <<>> THEN <<BlankLine>> ELSE rest
    ELSE content

\* Substrings that the language steps look for, per line of code.
TextFeatures(text) ==
    CASE text = "import React from 'react';" -> {"React", "import React"}
      [] text = "<div/>" -> {"<"}
      [] text = "<html>" -> {"<", "<html"}
      [] text = "<!DOCTYPE html>" -> {"<", "<!DOCTYPE"}
      [] text = "# -*- coding: utf-8 -*-" -> {"# -*- coding:"}
      [] OTHER -> {}

includes(content, needle) ==
    \E i \in DOMAIN content :
        \/ content[i].style = "code" /\ needle \in TextFeatures(content[i].text)
        \/ content[i].style \in {"html", "htmlOpen"} /\ needle = "<"

processJavaScriptTypeScript(content, ext) ==
    IF (ext = ".tsx" \/ ext = ".jsx") /\ ~includes(content, "React")
    THEN IF ~includes(content, "import React") /\ includes(content, "<")
         THEN <<Code("import React from 'react';"), BlankLine>> \o content
         ELSE content
    ELSE content

processPython(content) ==
    IF ~includes(content, "# -*- coding:") /\ ~includes(content, "# coding:")
    THEN <<Code("# -*- coding: utf-8 -*-")>> \o content
    ELSE content

processHTML(content) ==
    IF includes(content, "<html") /\ ~includes(content, "<!DOCTYPE")
    THEN <<Code("<!DOCTYPE html>")>> \o content
    ELSE content

processCSS(content) == content

\* JSON.parse of the texts of the model: a flat object is the sequence of its
\* members in the order of the text; any other text does not parse.
jsonParse(content) ==
    CASE content = <<Code("{\"b\":1,\"a\":2}")>> ->
           [ok |-> TRUE, value |-> << <<"b", 1>>, <<"a", 2>> >>]
      [] content = <<Code("{"), Code("  \"b\": 1,"), Code("  \"a\": 2"), Code("}")>> ->
           [ok |-> TRUE, value |-> << <<"b", 1>>, <<"a", 2>> >>]
      [] content = <<Code("{}")>> -> [ok |-> TRUE, value |-> <<>>]
      [] OTHER -> [ok |-> FALSE, value |-> <<>>]

\* JSON.stringify(value, null, 2): one member per line, indented by two spaces
jsonStringify(value) ==
    IF value = <<>> THEN <<Code("{}")>>
    ELSE <<Code("{")>>
         \o [i \in DOMAIN value |->
               Code("  \"" \o value[i][1] \o "\": " \o ToString(value[i][2])
                    \o (IF i < Len(value) THEN "," ELSE ""))]
         \o <<Code("}")>>

\* the catch of processJSON keeps a text that does not parse as it is
processJSON_asIs(content) == content
processJSON(content) ==
    LET parsed == jsonParse(content) IN
    IF parsed.ok THEN jsonStringify(parsed.value) ELSE content

applyLanguageSpecificProcessing(content, language, filePath) ==
    LET ext == extname(filePath) IN
    CASE language \in {"typescript", "javascript"} -> processJavaScriptTypeScript(content, ext)
      [] language = "python" -> processPython(content)
      [] language = "html" -> processHTML(content)
      [] language \in {"css", "scss"} -> processCSS(content)
      [] language = "json" -> processJSON(content)
      [] OTHER -> content

\* ------------------------------------------ the extension and language tables
\* ArtifactProcessor.detectLanguage: languageMap[ext] || 'text'
languageMap ==
    [ext \in {".js", ".ts", ".jsx", ".tsx", ".py", ".html", ".htm", ".css", ".scss",
              ".sass", ".json", ".xml", ".md", ".txt", ".sh", ".bash", ".sql", ".php",
              ".java", ".cpp", ".c", ".h", ".hpp", ".cs", ".rb", ".go", ".rs", ".swift",
              ".kt"} |->
        CASE ext \in {".js", ".jsx"} -> "javascript"
          [] ext \in {".ts", ".tsx"} -> "typescript"
          [] ext = ".py" -> "python"
          [] ext \in {".html", ".htm"} -> "html"
          [] ext = ".css" -> "css"
          [] ext = ".scss" -> "scss"
          [] ext = ".sass" -> "sass"
          [] ext = ".json" -> "json"
          [] ext = ".xml" -> "xml"
          [] ext = ".md" -> "markdown"
          [] ext = ".txt" -> "text"
          [] ext \in {".sh", ".bash"} -> "bash"
          [] ext = ".sql" -> "sql"
          [] ext = ".php" -> "php"
          [] ext = ".java" -> "java"
          [] ext \in {".cpp", ".hpp"} -> "cpp"
          [] ext \in {".c", ".h"} -> "c"
          [] ext = ".cs" -> "csharp"
          [] ext = ".rb" -> "ruby"
          [] ext = ".go" -> "go"
          [] ext = ".rs" -> "rust"
          [] ext = ".swift" -> "swift"
          [] OTHER -> "kotlin"]

detectLanguage(filename) ==
    LET ext == extname(filename) IN
    IF ext \in DOMAIN languageMap THEN languageMap[ext] ELSE "text"

\* the content script: filename.split('.').pop().toLowerCase()
popExt(filename) ==
    LET ext == extname(filename) IN
    CASE ext = ".js" -> "js"
      [] ext = ".jsx" -> "jsx"
      [] ext = ".ts" -> "ts"
      [] ext = ".tsx" -> "tsx"
      [] ext = ".py" -> "py"
      [] ext = ".html" -> "html"
      [] ext = ".json" -> "json"
      [] ext = ".css" -> "css"
      [] ext = ".md" -> "md"
      [] ext = ".xyz" -> "xyz"
      [] ext = ".js:1u" -> "js:1u"
      [] OTHER -> basename(filename.segs)

\* the content script's generatePathFromFilename: pathMappings[ext] || src/
pathMappings ==
    [ext \in {"tsx", "ts", "jsx", "js", "css", "scss", "html", "json", "py", "md"} |->
        CASE ext \in {"tsx", "jsx"} -> <<"src", "components">>
          [] ext \in {"ts", "js"} -> <<"src", "utils">>
          [] ext \in {"css", "scss"} -> <<"src", "styles">>
          [] ext = "html" -> <<"public">>
          [] ext = "json" -> <<"src", "data">>
          [] ext = "py" -> <<"src">>
          [] OTHER -> <<"docs">>]

generatePathFromFilename(filename) ==
    LET ext == popExt(filename) IN
    Rel((IF ext \in DOMAIN pathMappings THEN pathMappings[ext] ELSE <<"src">>)
        \o filename.segs)

\* the content script's getLanguageFromExtension: langMap[ext] || 'text'
langMap ==
    [ext \in {"tsx", "ts", "jsx", "js", "py", "html", "css", "scss", "json", "vue",
              "svelte", "php", "rb", "go", "rs", "cpp", "c", "java", "kt", "swift",
              "dart", "sql", "sh", "yml", "yaml", "xml", "md"} |->
        CASE ext \in {"tsx", "ts"} -> "typescript"
          [] ext \in {"jsx", "js"} -> "javascript"
          [] ext = "py" -> "python"
          [] ext = "rb" -> "ruby"
          [] ext = "rs" -> "rust"
          [] ext = "kt" -> "kotlin"
          [] ext = "sh" -> "bash"
          [] ext \in {"yml", "yaml"} -> "yaml"
          [] ext = "md" -> "markdown"
          [] OTHER -> ext]

getLanguageFromExtension(filename) ==
    LET ext == popExt(filename) IN
    IF ext \in DOMAIN langMap THEN langMap[ext] ELSE "text"

\* ------------------------------------------------------------- characters
\* The UTF-16 code units of the strings of the model (all of them ASCII).
StrCodes(str) ==
    CASE str = "A" -> <<65>>
      [] str = "B" -> <<66>>
      [] str = "Aa" -> <<65, 97>>
      [] str = "BB" -> <<66, 66>>
      [] str = "test" -> <<116, 101, 115, 116>>
      [] str = "const x = 1;" -> <<99, 111, 110, 115, 116, 32, 120, 32, 61, 32, 49, 59>>
      [] str = "import React from 'react';" -> <<105, 109, 112, 111, 114, 116, 32, 82, 101, 97, 99, 116, 32, 102, 114, 111, 109, 32, 39, 114, 101, 97, 99, 116, 39, 59>>
      [] str = "<div/>" -> <<60, 100, 105, 118, 47, 62>>
      [] str = "<html>" -> <<60, 104, 116, 109, 108, 62>>
      [] str = "<!DOCTYPE html>" -> <<60, 33, 68, 79, 67, 84, 89, 80, 69, 32, 104, 116, 109, 108, 62>>
      [] str = "# -*- coding: utf-8 -*-" -> <<35, 32, 45, 42, 45, 32, 99, 111, 100, 105, 110, 103, 58, 32, 117, 116, 102, 45, 56, 32, 45, 42, 45>>
      [] str = "{\"b\":1,\"a\":2}" -> <<123, 34, 98, 34, 58, 49, 44, 34, 97, 34, 58, 50, 125>>
      [] str = "{\"b\":1," -> <<123, 34, 98, 34, 58, 49, 44>>
      [] str = "{" -> <<123>>
      [] str = "  \"b\": 1," -> <<32, 32, 34, 98, 34, 58, 32, 49, 44>>
      [] str = "  \"a\": 2" -> <<32, 32, 34, 97, 34, 58, 32, 50>>
      [] str = "}" -> <<125>>
      [] str = "{}" -> <<123, 125>>
      [] str = "src" -> <<115, 114, 99>>
      [] str = ".." -> <<46, 46>>
      [] str = "a.js" -> <<97, 46, 106, 115>>
      [] str = "b.js" -> <<98, 46, 106, 115>>
      [] str = "a.jsx" -> <<97, 46, 106, 115, 120>>
      [] str = "a.tsx" -> <<97, 46, 116, 115, 120>>
      [] str = "a.ts" -> <<97, 46, 116, 115>>
      [] str = "a.py" -> <<97, 46, 112, 121>>
      [] str = "a.html" -> <<97, 46, 104, 116, 109, 108>>
      [] str = "a.json" -> <<97, 46, 106, 115, 111, 110>>
      [] str = "a.css" -> <<97, 46, 99, 115, 115>>
      [] str = "a.md" -> <<97, 46, 109, 100>>
      [] str = "a.xyz" -> <<97, 46, 120, 121, 122>>
      [] str = "a.js:1u" -> <<97, 46, 106, 115, 58, 49, 117>>
      [] OTHER -> <<>>

RECURSIVE JoinCodes(_, _)
JoinCodes(parts, sep) ==
    IF parts = <<>> THEN <<>>
    ELSE IF Len(parts) = 1 THEN parts[1]
    ELSE parts[1] \o <<sep>> \o JoinCodes(Tail(parts), sep)

\* a path string: its segments joined by '/', after a '/' when it is absolute
PathCodes(path) ==
    (IF path.abs THEN <<47>> ELSE <<>>)
        \o JoinCodes([i \in DOMAIN path.segs |-> StrCodes(path.segs[i])], 47)

\* a line: the comment opener, the token and the closer of its style; an
\* indented line begins with two spaces
LineCodes(line) ==
    (IF line.indent THEN <<32, 32>> ELSE <<>>) \o
    (CASE line.style = "slash" -> <<47, 47, 32>> \o PathCodes(line.path)
       [] line.style = "hash" -> <<35, 32>> \o PathCodes(line.path)
       [] line.style = "html" ->
            <<60, 33, 45, 45, 32>> \o PathCodes(line.path) \o <<32, 45, 45, 62>>
       [] line.style = "htmlOpen" -> <<60, 33, 45, 45, 32>> \o PathCodes(line.path)
       [] line.style = "block" -> <<47, 42, 32>> \o PathCodes(line.path) \o <<32, 42, 47>>
       [] line.style = "blockOpen" -> <<47, 42, 32>> \o PathCodes(line.path)
       [] line.style = "dash" -> <<45, 45, 32>> \o PathCodes(line.path)
       [] line.style = "bare" -> PathCodes(line.path)
       [] line.style = "code" -> StrCodes(line.text)
       [] OTHER -> <<>>)

\* a content string: its lines joined by '\n'
ContentCodes(content) ==
    JoinCodes([i \in DOMAIN content |-> LineCodes(content[i])], 10)

\* ------------------------------------ ArtifactProcessor.generateContentHash
\* hash = ((hash << 5) - hash) + char; hash = hash & hash: 31 * hash + char
\* as a signed 32-bit integer.  The product is formed on the 16-bit halves of
\* the two's complement of hash.
HashStep(hash, char) ==
    LET lo == hash % 65536
        hi == (hash \div 65536) % 65536
        sum == 31 * lo + char
        newlo == sum % 65536
        newhi == (31 * hi + sum \div 65536) % 65536
    IN IF newhi >= 32768 THEN (newhi - 65536) * 65536 + newlo
       ELSE newhi * 65536 + newlo

RECURSIVE HashCodes(_, _)
HashCodes(hash, codes) ==
    IF codes = <<>> THEN hash
    ELSE HashCodes(HashStep(hash, Head(codes)), Tail(codes))

\* Number.prototype.toString(36)
Digits36 ==
    << "0", "1", "2", "3", "4", "5", "6", "7", "8", "9", "a", "b", "c", "d", "e", "f",
       "g", "h", "i", "j", "k", "l", "m", "n", "o", "p", "q", "r", "s", "t", "u", "v",
       "w", "x", "y", "z" >>

RECURSIVE toString36(_)
toString36(n) ==
    IF n < 0 THEN "-" \o toString36(0 - n)
    ELSE IF n < 36 THEN Digits36[n + 1]
    ELSE toString36(n \div 36) \o Digits36[(n % 36) + 1]

generateContentHash(content) == toString36(HashCodes(0, ContentCodes(content)))

\* Buffer.byteLength(content, 'utf8'): the lines and the newlines between them
LineBytes(line) == Len(LineCodes(line))

RECURSIVE byteLength(_)
byteLength(content) ==
    IF content = <<>> THEN 0
    ELSE LineBytes(Head(content)) + (IF Len(content) > 1 THEN 1 ELSE 0)
         + byteLength(Tail(content))

\* ------------------------------------------------------------------ inputs
ProjectRoots == {<<"proj">>}

\* "src/a.js", "/src/a.js", "../a.js", ".claude-backups/a.js.backup.<1>"
FilePaths ==
    { Rel(<<"src", "a.js">>),
      Abs(<<"src", "a.js">>),
      Rel(<<"..", "a.js">>),
      Rel(<<".claude-backups", "a.js" \o ".backup." \o ToString(1)>>) }

ContentA == <<Code("A")>>
ContentB == <<Code("B")>>
\* "// ../a.js\nA": a decoration that names a path outside the root
ContentDeco == <<Deco("slash", Rel(<<"..", "a.js">>)), Code("A")>>

\* a request whose data has no content: the value undefined
NoContent == <<[style |-> "undefined", indent |-> FALSE, path |-> Rel(<<>>), text |-> ""]>>

\* the empty string
EmptyContent == <<BlankLine>>

FileContents == {ContentA, ContentB}

\* contents given to the processor:
\*   "const x = 1;"                     no decoration
\*   "// src/a.js\nconst x = 1;"        a decoration on the first line
\*   "# a.py\nA"                        a decoration that names another extension
\*   "A\n// b.js"                       a decoration on a later line only
\*   "# a.py\nA\n// b.js"               decorations on the first and on a later line
\*   "\n// a.py\nA"                     a blank line, then a decoration
\*   "  // a.py  \nA"                   a decoration with white space around it
\*   "<!-- a.html\n<div/>"              an HTML decoration without its closer
ContentPlain == <<Code("const x = 1;")>>
ContentFirst == <<Deco("slash", Rel(<<"src", "a.js">>)), Code("const x = 1;")>>
ContentHash == <<Deco("hash", Rel(<<"a.py">>)), Code("A")>>
ContentLater == <<Code("A"), Deco("slash", Rel(<<"b.js">>))>>
ContentBoth == <<Deco("hash", Rel(<<"a.py">>)), Code("A"), Deco("slash", Rel(<<"b.js">>))>>
ContentBlankFirst == <<BlankLine, Deco("slash", Rel(<<"a.py">>)), Code("A")>>
ContentIndented == <<[Deco("slash", Rel(<<"a.py">>)) EXCEPT !.indent = TRUE], Code("A")>>
ContentHtmlOpen == <<Deco("htmlOpen", Rel(<<"a.html">>)), Code("<div/>")>>

\* JSON texts: compact, already in the 2-space form, the empty object, a
\* truncated text, and the compact and the truncated text under a decoration
JsonCompact == <<Code("{\"b\":1,\"a\":2}")>>
JsonPretty == <<Code("{"), Code("  \"b\": 1,"), Code("  \"a\": 2"), Code("}")>>
JsonEmpty == <<Code("{}")>>
JsonTruncated == <<Code("{\"b\":1,")>>
JsonDecorated == <<Deco("slash", Rel(<<"a.json">>))>> \o JsonCompact
JsonTruncatedDecorated == <<Deco("slash", Rel(<<"a.json">>))>> \o JsonTruncated

ProcContents ==
    {ContentPlain, ContentFirst, ContentLater, ContentBoth, ContentBlankFirst,
     ContentIndented, ContentHtmlOpen, JsonCompact, JsonPretty, JsonEmpty, JsonTruncated,
     JsonDecorated, JsonTruncatedDecorated, NoContent}
ProcHints == {Rel(<<"a.js">>)}
ProcLanguages == {"javascript", "json"}

\* processArtifact: "Aa" and "BB" have the same hash; the name "a.js:1u" ends
\* in what could be a hash
ArtifactNames == {Rel(<<"a.js">>), Rel(<<"a.json">>), Rel(<<"a.js:1u">>)}
ArtifactContents == {ContentHash, <<Code("Aa")>>, <<Code("BB")>>, ContentB, EmptyContent}

\* the content script: names of artifacts and the texts copied or fetched
SenderNames == {Rel(<<"a.py">>), Rel(<<"a.tsx">>), Rel(<<"a.xyz">>), Rel(<<"a.js">>)}
SenderContents == {ContentPlain, ContentFirst, ContentA}
\* files that arrive in the download directory, and their names
DownloadNames == {Rel(<<"a.js">>)}
DownloadContents == {ContentA, ContentB, EmptyContent}
SubmitContents == {ContentA, ContentB, ContentDeco, NoContent}
Languages == {"javascript"}

\* ------------------------------------------------------------------- state
VARIABLES
    files,                  \* absolute path -> [content, mtime] of each file; the
                            \* mtime is kept where the program can read it (in a
                            \* backup directory) and is 0 elsewhere
    dirs,                   \* absolute paths of the directories
    now,                    \* Date.now()
    projectRoot,            \* FileManager.projectRoot
    backupDir,              \* FileManager.backupDir
    fileStats,              \* FileManager.fileStats
    serviceProjectRoot,     \* ClaudeCodeExtractorService.projectRoot
    totalProcessed,         \* ArtifactProcessor counters
    successfulExtractions,
    failedExtractions,
    processedFiles,         \* ArtifactProcessor.processedFiles (the ledger)
    recorded,               \* history: the pairs <<filePath, contentHash>> given to
                            \* markAsProcessed since the ledger was last cleared
    reqs,                   \* the calls in flight, one per slot
    last,                   \* the call that completed last, with its outcome
    backups,                \* history: paths of the backup files made by createBackup
                            \* and not removed by cleanupBackups since
    nWrites, nSetRoot, nCleanups,  \* calls begun so far (bounded)
    monitor,                \* the DownloadMonitor: monitoring, pendingDownloads, the
                            \* downloads directory and its polls in flight
    page                    \* the content script of one page: its ClaudeArtifactExtractor

fsVars == <<files, dirs>>
fmVars == <<projectRoot, backupDir, fileStats>>
apVars == <<totalProcessed, successfulExtractions, failedExtractions, processedFiles,
            recorded>>
opVars == <<nWrites, nSetRoot, nCleanups>>
serviceVars == <<files, dirs, now, projectRoot, backupDir, fileStats, serviceProjectRoot,
                 totalProcessed, successfulExtractions, failedExtractions, processedFiles,
                 recorded, reqs, last, backups, nWrites, nSetRoot, nCleanups>>
vars == <<files, dirs, now, projectRoot, backupDir, fileStats, serviceProjectRoot,
          totalProcessed, successfulExtractions, failedExtractions, processedFiles,
          recorded, reqs, last, backups, nWrites, nSetRoot, nCleanups, monitor, page>>

Slots == 1..MaxInFlight

\* A call: its arguments, the locals of the handler, where it stands (pc),
\* and what it has done so far (fsTouched .. solo are history of the call).
IdleReq ==
    [ kind |-> "idle", pc |-> "idle",
      filePath |-> NoPath, content |-> <<>>,
      createBackup |-> FALSE, overwrite |-> FALSE,
      absolutePath |-> NullDir,     \* writeFile: absolutePath; setProjectRoot: absolutePath
      backupTarget |-> NullDir,     \* createBackup: backupPath it copies to
      backupPath |-> NullDir,       \* writeFile: backupPath (null when none was made)
      sawExisting |-> FALSE,        \* result of fs.pathExists(absolutePath), line 469
      copyFailed |-> FALSE,         \* createBackup caught an error
      existedAtStart |-> FALSE,     \* the destination existed when the call began
      knownAtStart |-> FALSE,       \* a download: its pair was in the ledger at the start
      resubmission |-> FALSE,       \* a submission: the same as the call completed before it
      rawContent |-> <<>>,          \* a processor call: the content it was given
      hint |-> NoPath,              \* a processor call: the file name it was given
      language |-> "",              \* a processor call: the language it used
      rootAtStart |-> NullDir,      \* setProjectRoot: projectRoot when the call began
      backupDirAtStart |-> NullDir, \* setProjectRoot: backupDir when the call began
      totalAtStart |-> 0,           \* the processor's counters when the call began
      successAtStart |-> 0,
      failedAtStart |-> 0,
      backupsAtStart |-> 0,         \* backup files that existed at that time
      fsTouched |-> FALSE,          \* a step of the call changed files or dirs
      statsTouched |-> FALSE,       \* a step of the call changed fileStats
      backupCounted |-> FALSE,      \* a step of the call changed fileStats.backupsCreated
      countersTouched |-> FALSE,    \* a step of the call changed the processor's counters
      solo |-> TRUE,                \* no other call ran while this one was in flight
      outcome |-> "pending", error |-> "none" ]

\* ------------------------------------------------------------- filesystem
pathExists(p) == p \in DOMAIN files \/ p \in dirs

IsDir(p) == p \in dirs
IsFile(p) == p \in DOMAIN files

\* fs.ensureDir(d): makes d and its missing ancestors; fails on a file in the way
ensureDirOk(d) == \A q \in Prefixes(d) : ~IsFile(q)
ensureDirDirs(d) == dirs \cup Prefixes(d)

\* fs.writeFile(p, c): needs the parent directory and no directory at p
fsWriteOk(D, p) == p \notin D /\ dirname(p) \in D /\ p # <<>>
\* the only stat of the program is that of cleanupBackups, on the entries of
\* a directory called .claude-backups
Stamp(p) == IF \E i \in DOMAIN p : p[i] = ".claude-backups" THEN now ELSE 0
fsWrite_append(F, p, c) ==
    [q \in (DOMAIN F) \cup {p} |->
        IF q = p THEN [content |-> (IF p \in DOMAIN F THEN F[p].content ELSE <<>>) \o c,
                       mtime |-> Stamp(p)]
        ELSE F[q]]

fsWrite(F, p, c) ==
    [q \in (DOMAIN F) \cup {p} |-> IF q = p THEN [content |-> c, mtime |-> Stamp(p)] ELSE F[q]]

\* fs.remove(p): the file, or the directory with all below it
fsRemoveFiles(F, p) == [q \in {x \in DOMAIN F : ~IsPrefix(p, x)} |-> F[q]]
fsRemoveDirs(D, p) == {x \in D : ~IsPrefix(p, x)}

\* fs.copy(src, dest) of fs-extra: makes the parent of dest, overwrites a file
\* at dest; a directory is copied with all below it; it fails when src is
\* gone, when dest lies in src, or when file and directory would be mixed.
Rebase(src, dest, p) == dest \o SubSeq(p, Len(src) + 1, Len(p))

fsCopyOk(src, dest) ==
    /\ ensureDirOk(dirname(dest))
    /\ \/ IsFile(src) /\ ~IsDir(dest)
       \/ IsDir(src) /\ ~IsFile(dest) /\ ~IsPrefix(src, dest)

fsCopyFiles(src, dest) ==
    LET moved == {p \in DOMAIN files : IsPrefix(src, p)}
        targets == {Rebase(src, dest, p) : p \in moved}
        origin(t) == CHOOSE p \in moved : Rebase(src, dest, p) = t
    IN [q \in (DOMAIN files) \cup targets |->
          IF q \in targets THEN [content |-> files[origin(q)].content, mtime |-> Stamp(q)]
          ELSE files[q]]

fsCopyDirs(src, dest) ==
    dirs \cup Prefixes(dirname(dest))
         \cup {Rebase(src, dest, p) : p \in {d \in dirs : IsPrefix(src, d)}}

\* the entries of a directory (fs.readdir), as absolute paths
readdir(d) == {p \in (DOMAIN files) \cup dirs : Len(p) = Len(d) + 1 /\ IsPrefix(d, p)}

\* the backup files: what createBackup has made and is still there
BackupFiles == {b \in backups : IsFile(b)}

\* ------------------------------------------------------------- bookkeeping
FreeSlots == {s \in Slots : reqs[s].kind = "idle"}
LowestFree == CHOOSE s \in FreeSlots : \A t \in FreeSlots : s <= t
InFlight == Cardinality(Slots \ FreeSlots)
OthersBusy(s) == \E t \in Slots : t # s /\ reqs[t].kind # "idle"

\* r with the history of the step just taken; the primed variables it reads
\* are set before it is used.
Touch(r) ==
    [r EXCEPT !.fsTouched = @ \/ files' # files \/ dirs' # dirs,
              !.statsTouched = @ \/ fileStats' # fileStats,
              !.backupCounted = @ \/ fileStats'.backupsCreated # fileStats.backupsCreated,
              !.countersTouched = @ \/ apVars' # apVars]

\* a call begins in slot s: the calls already in flight are no longer alone
Admit(s, r) ==
    reqs' = [t \in Slots |->
               IF t = s THEN [Touch(r) EXCEPT !.solo = ~OthersBusy(s)]
               ELSE IF reqs[t].kind = "idle" THEN reqs[t]
               ELSE [reqs[t] EXCEPT !.solo = FALSE]]

\* the call in slot s goes on as r
Continue(s, r) == reqs' = [reqs EXCEPT ![s] = Touch(r)] /\ UNCHANGED last

\* the call in slot s returns (error = "none") or throws
Finish(s, r, error) ==
    /\ last' = [Touch(r) EXCEPT !.pc = "done",
                                !.outcome = IF error = "none" THEN "ok" ELSE "error",
                                !.error = error]
    /\ reqs' = [reqs EXCEPT ![s] = IdleReq]

\* a call that ends in its first step never occupies a slot
FinishAtOnce(r, error) ==
    /\ last' = [Touch(r) EXCEPT !.pc = "done",
                                !.outcome = IF error = "none" THEN "ok" ELSE "error",
                                !.error = error,
                                !.solo = FreeSlots = Slots]
    /\ UNCHANGED reqs

\* ------------------------------------------------ ArtifactProcessor.processContent
\* content.match (line 76) throws a TypeError when content is undefined; the
\* catch of lines 41-45 counts the failure and throws again.
processContentThrows(content) == content = NoContent

\* The value processContent returns; its counters are stepped by the caller's
\* action (totalProcessed on entry; successfulExtractions when nothing threw,
\* failedExtractions otherwise).
processContent(content, filePath, language) ==
    LET fromContent == extractFilePathFromContent(content)
        extractedPath == IF fromContent # NoPath THEN fromContent ELSE filePath
        cleanedContent == removePathDecoration(content)
        processedContent ==
            applyLanguageSpecificProcessing(cleanedContent, language, extractedPath)
    IN [content |-> processedContent, filePath |-> extractedPath, language |-> language]

\* ----------------------------------------- ArtifactProcessor.processedFiles
\* a path as the string the caller passes
RECURSIVE joinSegs(_)
joinSegs(segs) ==
    IF segs = <<>> THEN ""
    ELSE IF Len(segs) = 1 THEN segs[1]
    ELSE segs[1] \o "/" \o joinSegs(Tail(segs))

pathString(path) == (IF path.abs THEN "/" ELSE "") \o joinSegs(path.segs)

\* the key of both methods: `${filePath}:${contentHash}`
ledgerKey_pathOnly(filePath, contentHash) == pathString(filePath)
ledgerKey(filePath, contentHash) == pathString(filePath) \o ":" \o contentHash

hasBeenProcessed(filePath, contentHash) ==
    ledgerKey(filePath, contentHash) \in DOMAIN processedFiles

\* the ledger after markAsProcessed(filePath, contentHash): Map.set
markAsProcessed(filePath, contentHash) ==
    LET key == ledgerKey(filePath, contentHash) IN
    [k \in (DOMAIN processedFiles) \cup {key} |->
        IF k = key THEN [timestamp |-> now, filePath |-> filePath]
        ELSE processedFiles[k]]

\* the truth value of a string: only '' is falsy
isEmptyString(content) == ContentCodes(content) = <<>>

\* the calls that reach FileManager.writeFile
FileWriteKinds == {"write", "submit", "download"}

\* ------------------------------------------------------ FileManager.writeFile
\* where writeFile goes after the backup part (lines 473-479): the overwrite
\* test awaits only when overwrite is false
AfterBackup(r) == IF ~r.overwrite THEN "checkOverwrite" ELSE "write"

\* line 469: the backup part runs only when createBackup is set
AfterDirExists_always(r) == "checkExists"
AfterDirExists(r) == IF r.createBackup THEN "checkExists" ELSE AfterBackup(r)

\* createBackup, lines 513-516: <backupDir>/<basename>.backup.<time stamp>
backupPathFor_sameDir(absolutePath) ==
    pathJoin(dirname(absolutePath),
             <<basename(absolutePath) \o ".backup." \o ToString(now)>>)
backupPathFor(absolutePath) ==
    pathJoin(backupDir, <<basename(absolutePath) \o ".backup." \o ToString(now)>>)

\* FileManager.writeFile up to its first await (lines 443-460)
NewWrite(kind, filePath, content, doBackup, overwrite) ==
    LET absolutePath == resolveFilePath(projectRoot, filePath) IN
    [IdleReq EXCEPT !.kind = kind, !.pc = "ensureDir",
                    !.filePath = filePath, !.content = content,
                    !.createBackup = doBackup, !.overwrite = overwrite,
                    !.absolutePath = absolutePath,
                    !.existedAtStart = pathExists(absolutePath),
                    !.backupsAtStart = Cardinality(BackupFiles)]

\* a direct call FileManager.writeFile(filePath, content, options)
writeFile_begin(limit, cap, filePath, content, doBackup, overwrite) ==
    /\ nWrites < cap /\ InFlight < limit
    /\ nWrites' = nWrites + 1
    /\ UNCHANGED <<fsVars, now, fmVars, serviceProjectRoot, apVars, backups, nSetRoot, nCleanups>>
    /\ IF projectRoot = NullDir
       THEN FinishAtOnce([IdleReq EXCEPT !.kind = "write", !.filePath = filePath,
                                         !.content = content,
                                         !.createBackup = doBackup,
                                         !.overwrite = overwrite], "RootNotSet")
       ELSE /\ Admit(LowestFree, NewWrite("write", filePath, content, doBackup, overwrite))
            /\ UNCHANGED last

\* The counters of one processContent call: totalProcessed++ on entry, then
\* successfulExtractions++ before the return or failedExtractions++ in the
\* catch block.  The method has no await, so the three move in one step.
countProcessContent_uncountedFailure(threw) ==
    /\ totalProcessed' = totalProcessed + 1
    /\ successfulExtractions' = IF threw THEN successfulExtractions
                                         ELSE successfulExtractions + 1
    /\ UNCHANGED failedExtractions

countProcessContent(threw) ==
    /\ totalProcessed' = totalProcessed + 1
    /\ successfulExtractions' = IF threw THEN successfulExtractions
                                         ELSE successfulExtractions + 1
    /\ failedExtractions' = IF threw THEN failedExtractions + 1 ELSE failedExtractions

\* POST /api/process-artifact, type ARTIFACT_DETECTED: the root test of the
\* handler, handleBlobInterception, processContent and writeFile up to its
\* first await
submit_begin(limit, cap, filePath, content, language) ==
    LET atStart(r) == [r EXCEPT !.rawContent = content, !.hint = filePath,
                                !.language = language,
                                !.resubmission = /\ last.kind = "submit"
                                                 /\ last.outcome = "ok"
                                                 /\ last.rawContent = content
                                                 /\ last.hint = filePath
                                                 /\ last.language = language,
                                !.totalAtStart = totalProcessed,
                                !.successAtStart = successfulExtractions,
                                !.failedAtStart = failedExtractions]
    IN
    /\ nWrites < cap /\ InFlight < limit
    /\ nWrites' = nWrites + 1
    /\ UNCHANGED <<fsVars, now, fmVars, serviceProjectRoot, backups, nSetRoot, nCleanups,
                   processedFiles, recorded>>
    /\ IF serviceProjectRoot = NullDir
       THEN /\ UNCHANGED <<totalProcessed, successfulExtractions, failedExtractions>>
            /\ FinishAtOnce(atStart([IdleReq EXCEPT !.kind = "submit", !.filePath = filePath,
                                            !.content = content, !.createBackup = TRUE,
                                            !.overwrite = TRUE]), "RootNotSet")
       ELSE IF processContentThrows(content)
       THEN /\ countProcessContent(TRUE)
            /\ FinishAtOnce(atStart([IdleReq EXCEPT !.kind = "submit", !.filePath = filePath,
                                            !.content = content, !.createBackup = TRUE,
                                            !.overwrite = TRUE]), "ProcessFailed")
       ELSE LET processedResult == processContent(content, filePath, language) IN
            /\ countProcessContent(FALSE)
            /\ IF projectRoot = NullDir
               THEN FinishAtOnce(atStart([IdleReq EXCEPT !.kind = "submit",
                                                 !.filePath = processedResult.filePath,
                                                 !.content = processedResult.content,
                                                 !.createBackup = TRUE,
                                                 !.overwrite = TRUE]), "RootNotSet")
               ELSE /\ Admit(LowestFree,
                             atStart(NewWrite("submit", processedResult.filePath,
                                              processedResult.content, TRUE, TRUE)))
                    /\ UNCHANGED last

\* if (processedContent), download-monitor.js line 144: the processed content
\* of a download is written unless processArtifact returned null or ''
downloadIsWritten_onceOnly(filename, content, processedContent) ==
    /\ ~isEmptyString(processedContent)
    /\ ~hasBeenProcessed(filename, generateContentHash(content))

downloadIsWritten(filename, content, processedContent) ==
    ~isEmptyString(processedContent)

\* DownloadMonitor.processDownloadedFile for a pending download whose file has
\* arrived: processArtifact (the content test, detectLanguage, processContent,
\* markAsProcessed), then writeFile(filename, processedContent) up to its first
\* await when the processed content is not empty.  A download is pending only
\* after the handler's root test has passed.
download_begin(limit, cap, filename, content) ==
    LET contentHash == generateContentHash(content)
        asCall(r) == [r EXCEPT !.rawContent = content,
                               !.knownAtStart = hasBeenProcessed(filename, contentHash),
                               !.totalAtStart = totalProcessed,
                               !.successAtStart = successfulExtractions,
                               !.failedAtStart = failedExtractions]
        call == asCall([IdleReq EXCEPT !.kind = "download", !.filePath = filename,
                                       !.content = content, !.createBackup = TRUE,
                                       !.overwrite = TRUE])
    IN
    /\ nWrites < cap /\ InFlight < limit
    /\ serviceProjectRoot # NullDir
    /\ nWrites' = nWrites + 1
    /\ UNCHANGED <<fsVars, now, fmVars, serviceProjectRoot, backups, nSetRoot, nCleanups>>
    /\ IF isEmptyString(content)
       THEN /\ UNCHANGED apVars
            /\ FinishAtOnce(call, "none")
       ELSE LET language == detectLanguage(filename)
                result == processContent(content, filename, language)
            IN /\ countProcessContent(FALSE)
               /\ processedFiles' = markAsProcessed(filename, contentHash)
               /\ recorded' = recorded \cup {<<filename, contentHash>>}
               /\ IF downloadIsWritten(filename, content, result.content)
                  THEN /\ Admit(LowestFree,
                                asCall(NewWrite("download", filename, result.content,
                                                TRUE, TRUE)))
                       /\ UNCHANGED last
                  ELSE FinishAtOnce([call EXCEPT !.content = result.content], "none")

\* await fs.ensureDir(directory), line 460
writeFile_ensureDir(s) ==
    LET r == reqs[s]
        directory == dirname(r.absolutePath)
    IN /\ r.kind \in FileWriteKinds /\ r.pc = "ensureDir"
       /\ UNCHANGED <<files, now, fmVars, serviceProjectRoot, apVars, backups, opVars>>
       /\ IF ensureDirOk(directory)
          THEN /\ dirs' = ensureDirDirs(directory)
               /\ Continue(s, [r EXCEPT !.pc = "dirExists"])
          ELSE /\ UNCHANGED dirs
               /\ Finish(s, r, "ENOTDIR")

\* await fs.pathExists(directory), lines 463-465, and on to line 469
writeFile_dirExists(s) ==
    LET r == reqs[s]
        directory == dirname(r.absolutePath)
    IN /\ r.kind \in FileWriteKinds /\ r.pc = "dirExists"
       /\ UNCHANGED <<fsVars, now, projectRoot, backupDir, serviceProjectRoot, apVars,
                      backups, opVars>>
       /\ fileStats' = IF ~pathExists(directory)
                       THEN [fileStats EXCEPT !.directoriesCreated = @ + 1]
                       ELSE fileStats
       /\ Continue(s, [r EXCEPT !.pc = AfterDirExists(r)])

\* createBackup && await fs.pathExists(absolutePath), line 469, and the start
\* of createBackup (lines 513-516): the name is made from the clock and the
\* backup directory as they are now
writeFile_checkExists(s) ==
    LET r == reqs[s]
    IN /\ r.kind \in FileWriteKinds /\ r.pc = "checkExists"
       /\ UNCHANGED <<fsVars, now, fmVars, serviceProjectRoot, apVars, backups, opVars>>
       /\ IF pathExists(r.absolutePath)
          THEN Continue(s, [r EXCEPT !.pc = "copy", !.sawExisting = TRUE,
                                     !.backupTarget = backupPathFor(r.absolutePath)])
          ELSE Continue(s, [r EXCEPT !.pc = AfterBackup(r)])

\* the catch of createBackup, lines 523-526: the error is logged and null is
\* returned, so writeFile goes on
backupFailed_rethrow(s, r) == Finish(s, [r EXCEPT !.copyFailed = TRUE], "BackupFailed")
backupFailed(s, r) == Continue(s, [r EXCEPT !.pc = AfterBackup(r), !.copyFailed = TRUE])

\* await fs.copy(filePath, backupPath), lines 518-526; the copy can fail for
\* reasons outside the program (fault), and the error is caught
createBackup(s, fault) ==
    LET r == reqs[s]
        done == ~fault /\ fsCopyOk(r.absolutePath, r.backupTarget)
    IN /\ r.kind \in FileWriteKinds /\ r.pc = "copy"
       /\ UNCHANGED <<now, projectRoot, backupDir, serviceProjectRoot, apVars, opVars>>
       /\ IF done
          THEN /\ files' = fsCopyFiles(r.absolutePath, r.backupTarget)
               /\ dirs' = fsCopyDirs(r.absolutePath, r.backupTarget)
               /\ fileStats' = [fileStats EXCEPT !.backupsCreated = @ + 1]
               /\ backups' = IF IsFile(r.absolutePath)
                             THEN backups \cup {r.backupTarget} ELSE backups
               /\ Continue(s, [r EXCEPT !.pc = AfterBackup(r),
                                        !.backupPath = r.backupTarget])
          ELSE /\ UNCHANGED <<fsVars, fileStats, backups>>
               /\ backupFailed(s, r)

\* !overwrite && await fs.pathExists(absolutePath), lines 474-476
writeFile_checkOverwrite(s) ==
    LET r == reqs[s] IN
    /\ r.kind \in FileWriteKinds /\ r.pc = "checkOverwrite"
    /\ UNCHANGED <<fsVars, now, fmVars, serviceProjectRoot, apVars, backups, opVars>>
    /\ IF pathExists(r.absolutePath)
       THEN Finish(s, r, "FileExists")
       ELSE Continue(s, [r EXCEPT !.pc = "write"])

\* await fs.writeFile(absolutePath, content), lines 479-500; the write can
\* fail for reasons outside the program (fault)
writeFile_write(s, fault) ==
    LET r == reqs[s] IN
    /\ r.kind \in FileWriteKinds /\ r.pc = "write"
    /\ UNCHANGED <<dirs, now, projectRoot, backupDir, serviceProjectRoot, apVars,
                   backups, opVars>>
    /\ IF ~fault /\ fsWriteOk(dirs, r.absolutePath)
       THEN /\ files' = fsWrite(files, r.absolutePath, r.content)
            /\ fileStats' = [fileStats EXCEPT !.filesWritten = @ + 1,
                                              !.totalBytes = @ + byteLength(r.content)]
            /\ Finish(s, r, "none")
       ELSE /\ UNCHANGED <<files, fileStats>>
            /\ Finish(s, r, "WriteFailed")

\* ------------------------------------- POST /api/set-project, setProjectRoot
\* the handler and FileManager.setProjectRoot up to its first await (line 417)
setProjectRoot_begin(limit, cap, root) ==
    /\ nSetRoot < cap /\ InFlight < limit
    /\ nSetRoot' = nSetRoot + 1
    /\ UNCHANGED <<fsVars, now, fmVars, serviceProjectRoot, apVars, backups, nWrites,
                   nCleanups, last>>
    /\ Admit(LowestFree, [IdleReq EXCEPT !.kind = "setroot", !.pc = "ensureRoot",
                                         !.absolutePath = root,
                                         !.rootAtStart = projectRoot,
                                         !.backupDirAtStart = backupDir])

\* await fs.ensureDir(absolutePath), line 417
setProjectRoot_ensureRoot(s, fault) ==
    LET r == reqs[s] IN
    /\ r.kind = "setroot" /\ r.pc = "ensureRoot"
    /\ UNCHANGED <<files, now, fmVars, serviceProjectRoot, apVars, backups, opVars>>
    /\ IF ~fault /\ ensureDirOk(r.absolutePath)
       THEN /\ dirs' = ensureDirDirs(r.absolutePath)
            /\ Continue(s, [r EXCEPT !.pc = "testWrite"])
       ELSE /\ UNCHANGED dirs
            /\ Finish(s, r, "SetRootFailed")

\* await fs.writeFile(testFile, 'test'), lines 420-421
setProjectRoot_testWrite(s, fault) ==
    LET r == reqs[s]
        testFile == pathJoin(r.absolutePath, <<".claude-extractor-test">>)
    IN /\ r.kind = "setroot" /\ r.pc = "testWrite"
       /\ UNCHANGED <<dirs, now, fmVars, serviceProjectRoot, apVars, backups, opVars>>
       /\ IF ~fault /\ fsWriteOk(dirs, testFile)
          THEN /\ files' = fsWrite(files, testFile, <<Code("test")>>)
               /\ Continue(s, [r EXCEPT !.pc = "testRemove"])
          ELSE /\ UNCHANGED files
               /\ Finish(s, r, "SetRootFailed")

\* await fs.remove(testFile), then the assignments of lines 424-425 and the
\* call of line 428
setProjectRoot_testRemove(s) ==
    LET r == reqs[s]
        testFile == pathJoin(r.absolutePath, <<".claude-extractor-test">>)
    IN /\ r.kind = "setroot" /\ r.pc = "testRemove"
       /\ UNCHANGED <<now, fileStats, serviceProjectRoot, apVars, backups, opVars>>
       /\ files' = fsRemoveFiles(files, testFile)
       /\ dirs' = fsRemoveDirs(dirs, testFile)
       /\ projectRoot' = r.absolutePath
       /\ backupDir' = pathJoin(r.absolutePath, <<".claude-backups">>)
       /\ Continue(s, [r EXCEPT !.pc = "ensureBackupDir",
                                !.backupTarget = pathJoin(r.absolutePath, <<".claude-backups">>)])

\* await fs.ensureDir(this.backupDir), line 428; on return the handler sets
\* the service's projectRoot (server.js lines 65-69)
setProjectRoot_ensureBackupDir(s, fault) ==
    LET r == reqs[s] IN
    /\ r.kind = "setroot" /\ r.pc = "ensureBackupDir"
    /\ UNCHANGED <<files, now, fmVars, apVars, backups, opVars>>
    /\ IF ~fault /\ ensureDirOk(r.backupTarget)
       THEN /\ dirs' = ensureDirDirs(r.backupTarget)
            /\ serviceProjectRoot' = r.absolutePath
            /\ Finish(s, r, "none")
       ELSE /\ UNCHANGED <<dirs, serviceProjectRoot>>
            /\ Finish(s, r, "SetRootFailed")

\* --------------------------------------------- the methods called one by one
\* the record of a call of a method of the processor or of the content script
ProcCall(kind, rawContent, hint, language) ==
    [IdleReq EXCEPT !.kind = kind, !.pc = "done",
                    !.rawContent = rawContent, !.hint = hint, !.language = language,
                    !.totalAtStart = totalProcessed,
                    !.successAtStart = successfulExtractions,
                    !.failedAtStart = failedExtractions]

\* ArtifactProcessor.processContent(content, filePath, language) with its
\* counters; hint is the name the caller of kind started from
processContent_call(cap, kind, hint, content, filePath, language) ==
    /\ nWrites < cap
    /\ nWrites' = nWrites + 1
    /\ countProcessContent(processContentThrows(content))
    /\ UNCHANGED <<fsVars, now, fmVars, serviceProjectRoot, processedFiles, recorded, reqs,
                   backups, nSetRoot, nCleanups>>
    /\ IF processContentThrows(content)
       THEN last' = [ProcCall(kind, content, hint, language)
                        EXCEPT !.outcome = "error", !.error = "ProcessFailed"]
       ELSE LET result == processContent(content, filePath, language) IN
            last' = [ProcCall(kind, content, hint, result.language)
                        EXCEPT !.outcome = "ok", !.filePath = result.filePath,
                               !.content = result.content]

\* ArtifactProcessor.processArtifact({filename, content}); it returns null
\* when there is no content
processArtifact_call(cap, filename, content) ==
    IF isEmptyString(content)
    THEN /\ nWrites < cap
         /\ nWrites' = nWrites + 1
         /\ last' = [ProcCall("processArtifact", content, filename, "")
                        EXCEPT !.outcome = "null"]
         /\ UNCHANGED <<fsVars, now, fmVars, serviceProjectRoot, apVars, reqs, backups,
                        nSetRoot, nCleanups>>
    ELSE LET language == detectLanguage(filename)
             result == processContent(content, filename, language)
             contentHash == generateContentHash(content)
         IN /\ nWrites < cap
            /\ nWrites' = nWrites + 1
            /\ countProcessContent(FALSE)
            /\ processedFiles' = markAsProcessed(filename, contentHash)
            /\ recorded' = recorded \cup {<<filename, contentHash>>}
            /\ last' = [ProcCall("processArtifact", content, filename, result.language)
                           EXCEPT !.outcome = "ok", !.filePath = result.filePath,
                                  !.content = result.content,
                                  !.sawExisting = hasBeenProcessed(filename, contentHash)]
            /\ UNCHANGED <<fsVars, now, fmVars, serviceProjectRoot, reqs, backups,
                           nSetRoot, nCleanups>>

\* the first of the patterns, in their order, that some line matches (flag m)
matchPatterns(patterns, content) ==
    LET hits(k) == {i \in DOMAIN content : MatchesPathPattern(content[i], patterns[k])}
        ks == {k \in DOMAIN patterns : hits(k) # {}}
    IN IF ks = {} THEN NoPath
       ELSE LET k == CHOOSE x \in ks : \A y \in ks : x <= y
                i == CHOOSE x \in hits(k) : \A y \in hits(k) : x <= y
            IN content[i].path

\* clipboardText.trim().length
trimmedLength(content) ==
    LET codes == ContentCodes(content)
        inked == {i \in DOMAIN codes : codes[i] \notin {32, 10}}
    IN IF inked = {} THEN 0
       ELSE (CHOOSE i \in inked : \A j \in inked : j <= i)
            - (CHOOSE i \in inked : \A j \in inked : i <= j) + 1

\* the message clickCopyButtonAndExtract sends: the path of the trimmed first
\* line when it matches one of five patterns, the artifact name otherwise
clickCopyMessage(artifactName, clipboardText) ==
    LET firstLine == clipboardText[1]
        pathMatch == /\ firstLine.style \in {"slash", "hash", "html", "block", "bare"}
                     /\ IsPathToken(firstLine.path)
        filePath == IF pathMatch THEN firstLine.path ELSE artifactName
    IN [filePath |-> filePath, content |-> clipboardText,
        language |-> getLanguageFromExtension(filePath)]

\* the message processArtifactLink sends
artifactLinkMessage(filename, content) ==
    LET pathMatch == matchPatterns(<<"slash", "hash", "html", "block">>, content)
        filePath == IF pathMatch # NoPath THEN pathMatch
                    ELSE generatePathFromFilename(filename)
    IN [filePath |-> filePath, content |-> content,
        language |-> getLanguageFromExtension(filename)]

\* clickCopyButtonAndExtract for an artifact, and what processContent makes
\* of its message in handleBlobInterception
clickCopyButtonAndExtract(cap, artifactName, clipboardText) ==
    LET message == clickCopyMessage(artifactName, clipboardText) IN
    /\ trimmedLength(clipboardText) > 10
    /\ processContent_call(cap, "clickCopy", artifactName, message.content,
                           message.filePath, message.language)

\* processArtifactLink for a download link, and what processContent makes of
\* its message in handleBlobInterception
processArtifactLink(cap, filename, content) ==
    LET message == artifactLinkMessage(filename, content) IN
    /\ processContent_call(cap, "artifactLink", filename, message.content,
                           message.filePath, message.language)

\* ------------------------------------------------ FileManager.cleanupBackups
MaxAges == {0, 1}

\* stats.mtime of an entry of the backup directory; a directory there is a
\* copy and is as old as the newest file in it
mtimeOf(p) ==
    IF IsFile(p) THEN files[p].mtime
    ELSE LET below == {q \in DOMAIN files : IsPrefix(p, q)} IN
         IF below = {} THEN now
         ELSE files[CHOOSE q \in below : \A x \in below : files[x].mtime <= files[q].mtime].mtime

\* cleanupBackups(maxAge): every entry of the backup directory older than the
\* cutoff is removed.  No other call runs inside it in the model.
cleanupBackups(limit, maxAge) ==
    LET cutoffTime == now - maxAge
        old == IF backupDir = NullDir \/ ~pathExists(backupDir) THEN {}
               ELSE {p \in readdir(backupDir) : mtimeOf(p) < cutoffTime}
    IN /\ nCleanups < MaxCleanups /\ InFlight < limit
       /\ nCleanups' = nCleanups + 1
       /\ files' = [q \in {x \in DOMAIN files : \A p \in old : ~IsPrefix(p, x)} |-> files[q]]
       /\ dirs' = {x \in dirs : \A p \in old : ~IsPrefix(p, x)}
       /\ reqs' = [t \in Slots |-> IF reqs[t].kind = "idle" THEN reqs[t]
                                   ELSE [reqs[t] EXCEPT !.solo = FALSE]]
       /\ backups' = {b \in backups : \A p \in old : ~IsPrefix(p, b)}
       /\ UNCHANGED <<now, fmVars, serviceProjectRoot, apVars, nWrites, nSetRoot, last>>

\* ------------------------------------------------ ArtifactProcessor.resetStats
\* The three counters go to zero and the ledger is emptied.  (A call that
\* finds them so changes nothing and is left out.)
resetStats_partial(limit) ==
    /\ InFlight < limit
    /\ totalProcessed # 0 \/ successfulExtractions # 0 \/ failedExtractions # 0
          \/ processedFiles # <<>>
    /\ totalProcessed' = 0
    /\ successfulExtractions' = 0
    /\ processedFiles' = <<>>
    /\ recorded' = {}
    /\ last' = [IdleReq EXCEPT !.kind = "resetStats", !.pc = "done", !.outcome = "ok",
                               !.totalAtStart = totalProcessed,
                               !.successAtStart = successfulExtractions,
                               !.failedAtStart = failedExtractions]
    /\ UNCHANGED <<fsVars, now, fmVars, serviceProjectRoot, reqs, backups, opVars,
                   failedExtractions>>
resetStats(limit) ==
    /\ InFlight < limit
    /\ totalProcessed # 0 \/ successfulExtractions # 0 \/ failedExtractions # 0
          \/ processedFiles # <<>>
    /\ totalProcessed' = 0
    /\ successfulExtractions' = 0
    /\ failedExtractions' = 0
    /\ processedFiles' = <<>>
    /\ recorded' = {}
    /\ last' = [IdleReq EXCEPT !.kind = "resetStats", !.pc = "done", !.outcome = "ok",
                               !.totalAtStart = totalProcessed,
                               !.successAtStart = successfulExtractions,
                               !.failedAtStart = failedExtractions]
    /\ UNCHANGED <<fsVars, now, fmVars, serviceProjectRoot, reqs, backups, opVars>>

\* --------------------------------------------------------------- the clock
Tick(limit) ==
    /\ now < MaxClock /\ InFlight < limit
    /\ now' = now + 1
    /\ UNCHANGED <<fsVars, fmVars, serviceProjectRoot, apVars, reqs, last, backups, opVars>>

\* ----------------------------------------------------- the download monitor
\* The state after the service has started: its start() calls
\* downloadMonitor.start() from the callback of listen, before any request, so
\* while downloadDir is null; that call returns with monitoring still false.
\* downloadDir is set, together with the service's projectRoot, by a
\* set-project request that succeeds (server.js lines 66-69).
\* A pending download is an entry of the Map: its key (`${filename}_${timestamp}`),
\* its file name, and ord, the place it was inserted at.  A poll is one call
\* of checkPendingDownloads: where it stands, the entry its loop is at, and the
\* slot of the writeFile call it awaits; IdlePoll is a call that has returned.
IdlePoll ==
    [pc |-> "idle", entry |-> [key |-> <<NoPath, 0>>, filename |-> NoPath, ord |-> 0],
     slot |-> 0]

InitMonitor ==
    [ monitoring |-> FALSE,
      pendingDownloads |-> {},
      downloadsDir |-> <<>>,         \* the files of ~/Downloads: file name -> content
      polls |-> [p \in 1..MaxPolls |-> IdlePoll],
      handled |-> [o \in 1..MaxRegistered |-> 0],  \* history: times processArtifact
                                                  \* was called for the entry
      nRegistered |-> 0 ]

\* a poll whose awaited writeFile has returned: its continuation runs before
\* any timer or request is served
ResumeReady ==
    \E p \in 1..MaxPolls : /\ monitor.polls[p].pc = "writing"
                           /\ reqs[monitor.polls[p].slot].kind = "idle"

\* the for-of loop of checkPendingDownloads goes on after the entry at place
\* after: the Map iterator yields the next entry still (or newly) in the Map,
\* and the loop awaits fs.pathExists for it; with no entry left the call returns
Advance(pending, after) ==
    LET rest == {e \in pending : e.ord > after} IN
    IF rest = {} THEN IdlePoll
    ELSE [pc |-> "pathExists",
          entry |-> CHOOSE e \in rest : \A f \in rest : e.ord <= f.ord,
          slot |-> 0]

\* DownloadMonitor.start()
DownloadMonitor_start ==
    /\ monitor' = [monitor EXCEPT !.monitoring = @ \/ serviceProjectRoot # NullDir]
    /\ UNCHANGED <<serviceVars, page>>

\* POST /api/process-artifact, type BLOB_EXTRACTION_FAILED: the root test of
\* the handler, handleDownloadFallback and addPendingDownload (Map.set keeps
\* the place of a key that is there)
addPendingDownload(filename, timestamp) ==
    LET key == <<filename, timestamp>> IN
    /\ serviceProjectRoot # NullDir
    /\ ~ResumeReady
    /\ monitor.nRegistered < MaxRegistered
    /\ \A e \in monitor.pendingDownloads : e.key # key
    /\ monitor' = [monitor EXCEPT
                      !.nRegistered = @ + 1,
                      !.pendingDownloads = @ \cup {[key |-> key, filename |-> filename,
                                                    ord |-> monitor.nRegistered + 1]}]
    /\ UNCHANGED <<serviceVars, page>>

\* the browser has saved the file of a download in the downloads directory
downloadArrives(filename, content) ==
    /\ ~ResumeReady
    /\ filename \notin DOMAIN monitor.downloadsDir
    /\ monitor' = [monitor EXCEPT
                      !.downloadsDir = [f \in (DOMAIN @) \cup {filename} |->
                                          IF f = filename THEN content ELSE @[f]]]
    /\ UNCHANGED <<serviceVars, page>>

\* the interval timer of start() calls checkPendingDownloads, which runs up to
\* await fs.readdir; with monitoring off or nothing pending it returns at once
checkPendingDownloads(p) ==
    /\ monitor.monitoring
    /\ ~ResumeReady
    /\ monitor.pendingDownloads # {}
    /\ monitor.polls[p].pc = "idle"
    /\ \A q \in 1..MaxPolls : monitor.polls[q].pc = "idle" => p <= q
    /\ monitor' = [monitor EXCEPT !.polls[p].pc = "readdir"]
    /\ UNCHANGED <<serviceVars, page>>

\* await fs.readdir(this.downloadDir), line 101; an error ends the call
checkPendingDownloads_readdir(p, fault) ==
    /\ monitor.polls[p].pc = "readdir"
    /\ ~ResumeReady
    /\ monitor' = [monitor EXCEPT
                      !.polls[p] = IF fault THEN IdlePoll
                                   ELSE Advance(monitor.pendingDownloads, 0)]
    /\ UNCHANGED <<serviceVars, page>>

\* await fs.pathExists(filePath), line 106, and processDownloadedFile up to
\* await fs.readFile
checkPendingDownloads_pathExists(p) ==
    LET poll == monitor.polls[p] IN
    /\ poll.pc = "pathExists"
    /\ ~ResumeReady
    /\ monitor' = [monitor EXCEPT
                      !.polls[p] = IF poll.entry.filename \in DOMAIN monitor.downloadsDir
                                   THEN [poll EXCEPT !.pc = "readFile"]
                                   ELSE Advance(monitor.pendingDownloads, poll.entry.ord)]
    /\ UNCHANGED <<serviceVars, page>>

\* await fs.readFile(filePath), then processArtifact and writeFile up to its
\* first await (download_begin).  When readFile fails or nothing is to be
\* written processDownloadedFile returns, the key is deleted and the loop
\* goes on.
processDownloadedFile_readFile(p, fault) ==
    LET poll == monitor.polls[p]
        after == {e \in monitor.pendingDownloads : e.key # poll.entry.key}
    IN
    /\ poll.pc = "readFile"
    /\ ~ResumeReady
    /\ IF fault
       THEN /\ monitor' = [monitor EXCEPT !.pendingDownloads = after,
                                          !.polls[p] = Advance(after, poll.entry.ord)]
            /\ UNCHANGED serviceVars
       ELSE /\ download_begin(MaxInFlight, MaxRegistered * MaxPolls,
                              poll.entry.filename,
                              monitor.downloadsDir[poll.entry.filename])
            /\ IF reqs' = reqs
               THEN monitor' = [monitor EXCEPT
                                  !.handled[poll.entry.ord] = @ + 1,
                                  !.pendingDownloads = after,
                                  !.polls[p] = Advance(after, poll.entry.ord)]
               ELSE monitor' = [monitor EXCEPT
                                  !.handled[poll.entry.ord] = @ + 1,
                                  !.polls[p] = [poll EXCEPT !.pc = "writing",
                                                            !.slot = LowestFree]]
    /\ UNCHANGED page

\* writeFile has returned or thrown: processDownloadedFile returns (it catches
\* the error), this.pendingDownloads.delete(key), line 113, and the loop goes on
checkPendingDownloads_resume(p) ==
    LET poll == monitor.polls[p]
        after == {e \in monitor.pendingDownloads : e.key # poll.entry.key}
    IN
    /\ poll.pc = "writing"
    /\ reqs[poll.slot].kind = "idle"
    /\ monitor' = [monitor EXCEPT !.pendingDownloads = after,
                                  !.polls[p] = Advance(after, poll.entry.ord)]
    /\ UNCHANGED <<serviceVars, page>>

\* ------------------------------------------------------ the content script
\* The ClaudeArtifactExtractor of a page: its three fields, the index i of the
\* artifact button its loop is at and the place in processArtifactButton (pc).
\* accepted is history: the artifacts of this extraction for which a request
\* to the local service got a response with success.
InitPage ==
    [ isExtracting |-> FALSE, extractedCount |-> 0, totalArtifacts |-> 0,
      i |-> 0, pc |-> "idle", accepted |-> 0, nRuns |-> 0 ]

\* START_EXTRACTION: startAutoExtraction up to the first await of
\* processArtifactButton; found is artifactButtons.length.  While an
\* extraction is in progress the call returns at once.
startAutoExtraction(found) ==
    /\ ~page.isExtracting
    /\ page.nRuns < MaxRuns
    /\ page' = IF found = 0
               THEN [page EXCEPT !.nRuns = @ + 1, !.extractedCount = 0, !.accepted = 0]
               ELSE [page EXCEPT !.nRuns = @ + 1, !.extractedCount = 0, !.accepted = 0,
                                 !.isExtracting = TRUE, !.totalArtifacts = found,
                                 !.i = 1, !.pc = "panel"]
    /\ UNCHANGED <<serviceVars, monitor>>

\* processArtifactButton, lines 119-176: the panel is opened and the dropdown
\* and the Copy button are looked for; without either the visible code is used
processArtifactButton(hasDropdown, hasCopy) ==
    /\ page.pc = "panel"
    /\ page' = [page EXCEPT !.pc = IF hasDropdown /\ hasCopy THEN "clipboard" ELSE "visible"]
    /\ UNCHANGED <<serviceVars, monitor>>

\* clickCopyButtonAndExtract: the clipboard is read and, when its text is
\* longer than 10, sent; success returns to the loop of startAutoExtraction
\* (extractedCount++, the next button or the end); a short text, a failed
\* read or a failed request falls back to extractFromVisibleCode.
processArtifactButton_copy(longEnough, success) ==
    /\ page.pc = "clipboard"
    /\ page' = IF longEnough /\ success
               THEN IF page.i < page.totalArtifacts
                    THEN [page EXCEPT !.extractedCount = @ + 1, !.accepted = @ + 1,
                                      !.i = @ + 1, !.pc = "panel"]
                    ELSE [page EXCEPT !.extractedCount = @ + 1, !.accepted = @ + 1,
                                      !.i = 0, !.pc = "idle", !.isExtracting = FALSE]
               ELSE [page EXCEPT !.pc = "visible"]
    /\ UNCHANGED <<serviceVars, monitor>>

\* extractFromVisibleCode: it returns without a request when no panel, no
\* code element or no content of 10 characters is found; otherwise it sends
\* the content and throws unless the response has success.  The loop counts
\* the artifact unless processArtifactButton threw, and goes on.
extractFromVisibleCode(codeFound, success) ==
    LET counted == IF ~codeFound \/ success THEN 1 ELSE 0
        ok == IF codeFound /\ success THEN 1 ELSE 0
    IN
    /\ page.pc = "visible"
    /\ page' = IF page.i < page.totalArtifacts
               THEN [page EXCEPT !.extractedCount = @ + counted, !.accepted = @ + ok,
                                 !.i = @ + 1, !.pc = "panel"]
               ELSE [page EXCEPT !.extractedCount = @ + counted, !.accepted = @ + ok,
                                 !.i = 0, !.pc = "idle", !.isExtracting = FALSE]
    /\ UNCHANGED <<serviceVars, monitor>>

\* ------------------------------------------------------------ specification
Init ==
    /\ files = <<>>
    /\ dirs = {<<>>}
    /\ now = 1
    /\ projectRoot = NullDir
    /\ backupDir = NullDir
    /\ fileStats = [filesWritten |-> 0, backupsCreated |-> 0,
                    directoriesCreated |-> 0, totalBytes |-> 0]
    /\ serviceProjectRoot = NullDir
    /\ totalProcessed = 0
    /\ successfulExtractions = 0
    /\ failedExtractions = 0
    /\ processedFiles = <<>>
    /\ recorded = {}
    /\ reqs = [s \in Slots |-> IdleReq]
    /\ last = IdleReq
    /\ backups = {}
    /\ nWrites = 0 /\ nSetRoot = 0 /\ nCleanups = 0
    /\ monitor = InitMonitor
    /\ page = InitPage

\* The awaited steps of the calls in flight.
Steps ==
    \/ \E s \in Slots, fault \in BOOLEAN : setProjectRoot_ensureRoot(s, fault)
       /\ UNCHANGED <<monitor, page>>
    \/ \E s \in Slots, fault \in BOOLEAN : setProjectRoot_testWrite(s, fault)
       /\ UNCHANGED <<monitor, page>>
    \/ \E s \in Slots : setProjectRoot_testRemove(s) /\ UNCHANGED <<monitor, page>>
    \/ \E s \in Slots, fault \in BOOLEAN : setProjectRoot_ensureBackupDir(s, fault)
       /\ UNCHANGED <<monitor, page>>
    \/ \E s \in Slots : writeFile_ensureDir(s) /\ UNCHANGED <<monitor, page>>
    \/ \E s \in Slots : writeFile_dirExists(s) /\ UNCHANGED <<monitor, page>>
    \/ \E s \in Slots : writeFile_checkExists(s) /\ UNCHANGED <<monitor, page>>
    \/ \E s \in Slots, fault \in BOOLEAN : createBackup(s, fault) /\ UNCHANGED <<monitor, page>>
    \/ \E s \in Slots : writeFile_checkOverwrite(s) /\ UNCHANGED <<monitor, page>>
    \/ \E s \in Slots, fault \in BOOLEAN : writeFile_write(s, fault) /\ UNCHANGED <<monitor, page>>

\* One call at a time: a call begins, and the clock is read, when no call is
\* in flight.  The calls are those of the service and of its FileManager.
Next ==
    \/ \E root \in ProjectRoots :
          setProjectRoot_begin(1, MaxSetRoot, root) /\ UNCHANGED <<monitor, page>>
    \/ \E filePath \in FilePaths, content \in FileContents, doBackup \in BOOLEAN,
          overwrite \in BOOLEAN :
          writeFile_begin(1, MaxWrites, filePath, content, doBackup, overwrite)
          /\ UNCHANGED <<monitor, page>>
    \/ \E filePath \in FilePaths, content \in SubmitContents, language \in Languages :
          submit_begin(1, MaxWrites, filePath, content, language) /\ UNCHANGED <<monitor, page>>
    \/ \E filename \in DownloadNames, content \in DownloadContents :
          download_begin(1, MaxWrites, filename, content) /\ UNCHANGED <<monitor, page>>
    \/ \E maxAge \in MaxAges : cleanupBackups(1, maxAge) /\ UNCHANGED <<monitor, page>>
    \/ resetStats(1) /\ UNCHANGED <<monitor, page>>
    \/ Steps
    \/ Tick(1) /\ UNCHANGED <<monitor, page>>

Spec == Init /\ [][Next]_vars

\* Requests served concurrently: up to MaxInFlight calls are in flight and
\* their awaited steps interleave; the submissions go to one destination.
RacePaths == {Rel(<<"src", "a.js">>)}

NextRace ==
    \/ \E root \in ProjectRoots :
          setProjectRoot_begin(MaxInFlight, MaxSetRoot, root) /\ UNCHANGED <<monitor, page>>
    \/ \E filePath \in RacePaths, content \in FileContents, language \in Languages :
          submit_begin(MaxInFlight, MaxRaceWrites, filePath, content, language)
          /\ UNCHANGED <<monitor, page>>
    \/ \E maxAge \in MaxAges : cleanupBackups(MaxInFlight + 1, maxAge) /\ UNCHANGED <<monitor, page>>
    \/ \E s \in Slots, fault \in BOOLEAN : setProjectRoot_ensureRoot(s, fault)
       /\ UNCHANGED <<monitor, page>>
    \/ \E s \in Slots, fault \in BOOLEAN : setProjectRoot_testWrite(s, fault)
       /\ UNCHANGED <<monitor, page>>
    \/ \E s \in Slots : setProjectRoot_testRemove(s) /\ UNCHANGED <<monitor, page>>
    \/ \E s \in Slots, fault \in BOOLEAN : setProjectRoot_ensureBackupDir(s, fault)
       /\ UNCHANGED <<monitor, page>>
    \/ \E s \in Slots : writeFile_ensureDir(s) /\ UNCHANGED <<monitor, page>>
    \/ \E s \in Slots : writeFile_dirExists(s) /\ UNCHANGED <<monitor, page>>
    \/ \E s \in Slots : writeFile_checkExists(s) /\ UNCHANGED <<monitor, page>>
    \/ \E s \in Slots, fault \in BOOLEAN : createBackup(s, fault) /\ UNCHANGED <<monitor, page>>
    \/ \E s \in Slots, fault \in BOOLEAN : writeFile_write(s, fault) /\ UNCHANGED <<monitor, page>>
    \/ Tick(MaxInFlight + 1) /\ UNCHANGED <<monitor, page>>

SpecRace == Init /\ [][NextRace]_vars

\* The processor and the content script by themselves: their methods are
\* called one after the other on the inputs above.
NextProc ==
    \/ \E content \in ProcContents, filePath \in ProcHints, language \in ProcLanguages :
          processContent_call(MaxProcCalls, "processContent", filePath, content, filePath,
                              language) /\ UNCHANGED <<monitor, page>>
    \/ \E filename \in ArtifactNames, content \in ArtifactContents :
          processArtifact_call(MaxProcCalls, filename, content) /\ UNCHANGED <<monitor, page>>
    \/ \E artifactName \in SenderNames, clipboardText \in SenderContents :
          clickCopyButtonAndExtract(MaxProcCalls, artifactName, clipboardText)
          /\ UNCHANGED <<monitor, page>>
    \/ \E filename \in SenderNames, content \in SenderContents :
          processArtifactLink(MaxProcCalls, filename, content) /\ UNCHANGED <<monitor, page>>
    \/ resetStats(1) /\ UNCHANGED <<monitor, page>>
    \/ Tick(1) /\ UNCHANGED <<monitor, page>>

SpecProc == Init /\ [][NextProc]_vars

\* The set-project requests by themselves: up to MaxInFlight of them are in
\* flight, for one root or for two, and their awaited steps interleave.
RaceRoots == {<<"proj">>, <<"other">>}

NextRoots ==
    \/ \E root \in RaceRoots :
          setProjectRoot_begin(MaxInFlight, MaxRaceSetRoot, root) /\ UNCHANGED <<monitor, page>>
    \/ \E s \in Slots, fault \in BOOLEAN : setProjectRoot_ensureRoot(s, fault)
       /\ UNCHANGED <<monitor, page>>
    \/ \E s \in Slots, fault \in BOOLEAN : setProjectRoot_testWrite(s, fault)
       /\ UNCHANGED <<monitor, page>>
    \/ \E s \in Slots : setProjectRoot_testRemove(s) /\ UNCHANGED <<monitor, page>>
    \/ \E s \in Slots, fault \in BOOLEAN : setProjectRoot_ensureBackupDir(s, fault)
       /\ UNCHANGED <<monitor, page>>

SpecRoots == Init /\ [][NextRoots]_vars

\* The content script by itself: extractions of the artifacts of a page, with
\* every outcome of the page's elements, the clipboard and the requests.
NextPage ==
    \/ \E found \in 0..MaxArtifacts : startAutoExtraction(found)
    \/ \E hasDropdown \in BOOLEAN, hasCopy \in BOOLEAN :
          processArtifactButton(hasDropdown, hasCopy)
    \/ \E longEnough \in BOOLEAN, success \in BOOLEAN :
          processArtifactButton_copy(longEnough, success)
    \/ \E codeFound \in BOOLEAN, success \in BOOLEAN :
          extractFromVisibleCode(codeFound, success)

SpecPage == Init /\ [][NextPage]_vars

\* The download fallback: a set-project request, downloads that are
\* registered and arrive, the calls of start(), and the polls of the monitor
\* with the writes they make.
NextMonitor ==
    \/ \E root \in ProjectRoots :
          setProjectRoot_begin(1, MaxSetRoot, root) /\ UNCHANGED <<monitor, page>>
    \/ \E s \in Slots, fault \in BOOLEAN : setProjectRoot_ensureRoot(s, fault)
       /\ UNCHANGED <<monitor, page>>
    \/ \E s \in Slots, fault \in BOOLEAN : setProjectRoot_testWrite(s, fault)
       /\ UNCHANGED <<monitor, page>>
    \/ \E s \in Slots : setProjectRoot_testRemove(s) /\ UNCHANGED <<monitor, page>>
    \/ \E s \in Slots, fault \in BOOLEAN : setProjectRoot_ensureBackupDir(s, fault)
       /\ UNCHANGED <<monitor, page>>
    \/ DownloadMonitor_start
    \/ \E filename \in DownloadNames, timestamp \in 1..MaxRegistered :
          addPendingDownload(filename, timestamp)
    \/ \E filename \in DownloadNames, content \in DownloadContents :
          downloadArrives(filename, content)
    \/ \E p \in 1..MaxPolls : checkPendingDownloads(p)
    \/ \E p \in 1..MaxPolls, fault \in BOOLEAN : checkPendingDownloads_readdir(p, fault)
    \/ \E p \in 1..MaxPolls : checkPendingDownloads_pathExists(p)
    \/ \E p \in 1..MaxPolls, fault \in BOOLEAN : processDownloadedFile_readFile(p, fault)
    \/ \E p \in 1..MaxPolls : checkPendingDownloads_resume(p)
    \/ \E s \in Slots : writeFile_ensureDir(s) /\ UNCHANGED <<monitor, page>>
    \/ \E s \in Slots : writeFile_dirExists(s) /\ UNCHANGED <<monitor, page>>
    \/ \E s \in Slots : writeFile_checkExists(s) /\ UNCHANGED <<monitor, page>>
    \/ \E s \in Slots, fault \in BOOLEAN : createBackup(s, fault) /\ UNCHANGED <<monitor, page>>
    \/ \E s \in Slots, fault \in BOOLEAN : writeFile_write(s, fault) /\ UNCHANGED <<monitor, page>>

\* The interval timer fires again and again and every awaited call returns;
\* a call of the filesystem that can succeed does not fail for ever.  Nothing
\* in the service calls start() again, so that call has no fairness.
FairMonitor ==
    /\ \A p \in 1..MaxPolls :
          /\ WF_vars(checkPendingDownloads(p))
          /\ SF_vars(checkPendingDownloads_readdir(p, FALSE))
          /\ WF_vars(checkPendingDownloads_pathExists(p))
          /\ SF_vars(processDownloadedFile_readFile(p, FALSE))
          /\ WF_vars(checkPendingDownloads_resume(p))
    /\ \A s \in Slots :
          /\ WF_vars(writeFile_ensureDir(s) /\ UNCHANGED <<monitor, page>>)
          /\ WF_vars(writeFile_dirExists(s) /\ UNCHANGED <<monitor, page>>)
          /\ WF_vars(writeFile_checkExists(s) /\ UNCHANGED <<monitor, page>>)
          /\ SF_vars(createBackup(s, FALSE) /\ UNCHANGED <<monitor, page>>)
          /\ SF_vars(writeFile_write(s, FALSE) /\ UNCHANGED <<monitor, page>>)

SpecMonitor == Init /\ [][NextMonitor]_vars /\ FairMonitor

\* ================================================================== claims
WriteKinds == {"write", "submit"}

\* the call that completed last was a writeFile (direct or for a submission)
\* that got past the project-root test
LastWrite == last.kind \in WriteKinds /\ last.outcome # "pending" /\ last.error # "RootNotSet"

\* the step completes the call in slot s
Completes(s) == reqs[s].kind # "idle" /\ reqs'[s].kind = "idle"

\* the files and directories the step created or overwrote
Changed ==
    {p \in DOMAIN files' : p \notin DOMAIN files \/ files'[p].content # files[p].content}
    \cup (dirs' \ dirs)

\* C1: writeFile rejects every path with a '..' segment or a leading '/', and
\* the rejected call has changed no file, no directory and no counter of the
\* file manager.
C1_TraversalRejected ==
    (LastWrite /\ ~validateFilePath(last.filePath))
        => /\ last.outcome = "error"
           /\ ~last.fsTouched
           /\ ~last.statsTouched

\* C2: every file or directory that a step of writeFile creates or overwrites
\* lies inside the project root configured at that time.
C2_WritesInsideRoot ==
    [][\A s \in Slots :
          (reqs[s].kind \in WriteKinds /\ reqs'[s] # reqs[s])
              => \A p \in Changed : IsPrefix(projectRoot, p)]_vars

\* C3 as claimed: a call has made a backup exactly when createBackup was set
\* and the destination existed when the call began.
C3_BackupIffExisting ==
    LastWrite => ((last.backupPath # NullDir) <=> (last.createBackup /\ last.existedAtStart))

\* C3 amended: a call has made a backup exactly when createBackup was set, the
\* destination existed when the call tested for it and the copy did not fail;
\* the backup it reports is a file createBackup made (it is there as long as
\* cleanupBackups has not run).  When calls run one at
\* a time the destination exists at the test exactly if it did when the call
\* began.
C3_BackupIffExistingAndCopied ==
    LastWrite =>
        /\ (last.backupPath # NullDir)
               <=> (last.createBackup /\ last.sawExisting /\ ~last.copyFailed)
        /\ (last.backupPath # NullDir /\ nCleanups = 0) => last.backupPath \in BackupFiles
        /\ (last.solo /\ last.createBackup /\ last.error # "ENOTDIR")
               => (last.sawExisting <=> last.existedAtStart)

\* a call that made a backup has completed
C3_Witness ==
    LastWrite /\ last.outcome = "ok" /\ last.createBackup /\ last.existedAtStart
        /\ last.backupPath # NullDir

\* The round trip at the step that completes writeFile(P, B): P holds A (the
\* first call wrote it), there was no backup file when the call began, and
\* createBackup is set.  `copied` says whether the claim is limited to calls
\* whose backup copy did not fail.
RoundTrip(copied) ==
    \A s \in Slots :
        LET r == reqs[s]
            P == r.absolutePath
        IN (/\ r.kind \in WriteKinds /\ r.pc = "write" /\ Completes(s)
            /\ last'.outcome = "ok"
            /\ r.createBackup /\ r.existedAtStart /\ r.backupsAtStart = 0
            /\ IsFile(P)
            /\ copied => ~r.copyFailed)
           => /\ Cardinality(BackupFiles') = 1
              /\ \A b \in BackupFiles' :
                    /\ dirname(b) = backupDir
                    /\ files'[b].content = files[P].content
              /\ files'[P].content = r.content

\* the first call of the round trip: P does not exist, so the call writes A
\* and makes no backup
FirstWrite ==
    \A s \in Slots :
        LET r == reqs[s]
            P == r.absolutePath
        IN (/\ r.kind \in WriteKinds /\ r.pc = "write" /\ Completes(s)
            /\ last'.outcome = "ok" /\ ~r.existedAtStart)
           => /\ files'[P].content = r.content
              /\ last'.backupPath = NullDir
              /\ BackupFiles' = BackupFiles /\ Cardinality(BackupFiles) = r.backupsAtStart

\* C4 as claimed: from a root where P does not exist, writeFile(P, A) and then
\* writeFile(P, B) with createBackup leave exactly one backup file, its bytes
\* are A, and P holds B.
C4_RoundTrip == [][FirstWrite /\ RoundTrip(FALSE)]_vars

\* C4 amended: the same, provided the copy of A to the backup did not fail.
C4_RoundTripWhenCopied == [][FirstWrite /\ RoundTrip(TRUE)]_vars

\* the second call of a round trip has completed: one backup, which differs
\* from what P holds now
C4_Witness ==
    /\ LastWrite /\ last.outcome = "ok" /\ last.createBackup
    /\ last.existedAtStart /\ last.backupsAtStart = 0
    /\ last.backupPath \in DOMAIN files /\ last.absolutePath \in DOMAIN files
    /\ files[last.backupPath].content = ContentA
    /\ files[last.absolutePath].content = ContentB

\* C5: when submissions to one destination interleave, a content that a
\* submission overwrites is held by a backup file, and every backup made is a
\* copy of what the destination held.  (Stated for submissions whose backup
\* copy did not fail and for runs without cleanupBackups.)
C5_NoContentLost ==
    [][\A s \in Slots :
          LET r == reqs[s]
              P == r.absolutePath
          IN /\ (/\ r.kind = "submit" /\ r.pc = "write" /\ Completes(s)
                 /\ ~r.copyFailed /\ nCleanups = 0
                 /\ IsFile(P) /\ P \in DOMAIN files'
                 /\ files'[P].content # files[P].content)
                => \E b \in BackupFiles' : files'[b].content = files[P].content
             /\ (/\ r.kind = "submit" /\ r.pc = "copy" /\ reqs'[s].pc # "copy"
                 /\ reqs'[s].backupPath # NullDir /\ IsFile(P))
                => files'[reqs'[s].backupPath].content = files[P].content]_vars

\* C6: writeFile with overwrite = false on a destination that exists fails
\* with the file-exists error and has had no effect: no file, directory or
\* backup was made and no counter of the file manager changed.  (Stated for
\* the paths validateFilePath accepts.)
C6_OverwriteCheckFirst ==
    (/\ LastWrite /\ last.kind = "write" /\ validateFilePath(last.filePath)
     /\ ~last.overwrite /\ last.existedAtStart)
        => /\ last.error = "FileExists"
           /\ last.backupPath = NullDir
           /\ ~last.fsTouched
           /\ ~last.statsTouched

\* C7: as long as no setProjectRoot has succeeded, every submission and every
\* writeFile call fails with the root-not-set error and changes neither the
\* filesystem nor the counters nor the ledger.  (Stated for the paths
\* validateFilePath accepts.)
C7_RootNotSetRejected ==
    serviceProjectRoot = NullDir
        => /\ (last.kind \in WriteKinds /\ validateFilePath(last.filePath))
                  => /\ last.error = "RootNotSet"
                     /\ ~last.fsTouched /\ ~last.statsTouched /\ ~last.countersTouched
           /\ totalProcessed = 0 /\ successfulExtractions = 0 /\ failedExtractions = 0
           /\ processedFiles = <<>>

\* C8: a failed backup copy does not abort writeFile.  The call goes on to the
\* overwrite test and the write; it ends only as those steps end it; when it
\* succeeds the new content is at the destination, the result has no
\* backupPath and backupsCreated was not incremented by the call.
C8_BackupFailureDegrades ==
    [][/\ \A s \in Slots :
             (reqs'[s].kind \in WriteKinds /\ reqs'[s].copyFailed)
                 => /\ reqs'[s].pc \in {"checkOverwrite", "write"}
                    /\ reqs'[s].backupPath = NullDir
       /\ \A s \in Slots :
             LET r == reqs[s] IN
             (r.kind \in WriteKinds /\ Completes(s) /\ last'.copyFailed)
                 => /\ r.pc \in {"checkOverwrite", "write"}
                    /\ last'.error \in {"none", "FileExists", "WriteFailed"}
                    /\ last'.backupPath = NullDir
                    /\ ~last'.backupCounted
                    /\ last'.error = "none"
                           => /\ r.absolutePath \in DOMAIN files'
                              /\ files'[r.absolutePath].content = r.content]_vars

\* a call whose backup copy failed has returned a successful result
C8_Witness ==
    LastWrite /\ last.copyFailed /\ last.outcome = "ok" /\ last.existedAtStart

\* C9: a backup file never changes: from one state to the next it keeps its
\* bytes, or it is gone and the step was cleanupBackups.
C9_BackupsImmutable ==
    [][\A b \in BackupFiles :
          \/ b \in DOMAIN files' /\ files'[b].content = files[b].content
          \/ b \notin DOMAIN files' /\ nCleanups' # nCleanups]_vars

\* C10: a submission that failed has left no trace: no file, directory or
\* backup was made, and no counter of the file manager or of the processor
\* changed.  (Stated for the paths validateFilePath accepts.)
C10_FailedSubmissionLeavesNoTrace ==
    (last.kind = "submit" /\ last.outcome = "error" /\ validateFilePath(last.filePath))
        => /\ ~last.fsTouched
           /\ ~last.statsTouched
           /\ ~last.countersTouched

\* C11: a submission that fails in writeFile (the path test or the write) is
\* counted as a failure and not as a success: when it ends, failedExtractions
\* is one more than when it began and successfulExtractions is what it was.
\* (Stated for the paths validateFilePath accepts, one call at a time.)
C11_FailedSubmissionCounted ==
    [][\A s \in Slots :
          LET r == reqs[s] IN
          (/\ r.kind = "submit" /\ Completes(s) /\ last'.outcome = "error"
           /\ validateFilePath(r.filePath))
              => /\ failedExtractions' = r.failedAtStart + 1
                 /\ successfulExtractions' = r.successAtStart]_vars

\* C13: setProjectRoot either succeeds, and the new root and its backup
\* directory are the configured ones, or it fails and the root and the backup
\* directory are those of before the call.
C13_SetRootAllOrNothing ==
    [][\A s \in Slots :
          LET r == reqs[s] IN
          (r.kind = "setroot" /\ Completes(s))
              => IF last'.outcome = "ok"
                 THEN /\ projectRoot' = r.absolutePath
                      /\ backupDir' = pathJoin(r.absolutePath, <<".claude-backups">>)
                 ELSE /\ projectRoot' = r.rootAtStart
                      /\ backupDir' = r.backupDirAtStart]_vars

\* the step is a resetStats call
ResetStep == last'.kind = "resetStats" /\ last' # last

C20_ResubmissionMakesNoBackup ==
    [][\A s \in Slots :
          LET r == reqs[s] IN
          (/\ r.kind = "submit" /\ Completes(s) /\ last'.outcome = "ok"
           /\ validateFilePath(r.filePath)
           /\ last.kind = "submit" /\ last.outcome = "ok"
           /\ last.filePath = r.filePath /\ last.content = r.content)
              => Cardinality(BackupFiles') = r.backupsAtStart]_vars

\* the calls that run processContent by itself and have returned
ProcKinds == {"processContent", "processArtifact", "clickCopy", "artifactLink"}

Processed == last.kind \in ProcKinds /\ last.outcome = "ok"

\* line is a decoration as written: one of the six shapes, a path token, no
\* white space around it
StrictDecoration(line) ==
    /\ line.style \in {"slash", "hash", "html", "block", "dash", "bare"}
    /\ ~line.indent
    /\ IsPathToken(line.path)

\* C14: when the first line of the content is a decoration, the path that
\* processContent returns is the token of that line, whatever the later lines
\* are, and that line is not in the content it returns.
C14_FirstLineDecorationWins ==
    (Processed /\ StrictDecoration(last.rawContent[1]))
        => /\ last.filePath = last.rawContent[1].path
           /\ \A i \in DOMAIN last.content : last.content[i] # last.rawContent[1]

\* C15: only the first line that is not blank is looked at: when it is not a
\* decoration (not even with white space around it or without its closer),
\* the path that processContent returns is the file name it was given,
\* whatever the later lines are.
C15_OnlyFirstLineExamined ==
    (/\ last.kind \in {"processContent", "processArtifact"} /\ last.outcome = "ok"
     /\ LET first == skipBlank(last.rawContent, 1) IN
        first <= Len(last.rawContent) /\ ~isDecoration(last.rawContent[first]))
        => last.filePath = last.hint

\* C16: when no line of the content is a decoration and the artifact's name
\* has no separator, the content script and the service together resolve the
\* path to the directory of the extension followed by the name: src/components/
\* for tsx and jsx, src/styles/ for css and scss, public/ for html, src/ for
\* py, docs/ for md, and src/ for an extension no table knows.  (Stated for
\* the extensions tsx, jsx, css, scss, html, py, md and xyz.)
C16_FallbackDirectory ==
    (/\ last.kind \in {"clickCopy", "artifactLink"} /\ last.outcome = "ok"
     /\ \A i \in DOMAIN last.rawContent : ~isDecoration(last.rawContent[i])
     /\ Len(last.hint.segs) = 1
     /\ popExt(last.hint) \in {"tsx", "jsx", "css", "scss", "html", "py", "md", "xyz"})
        => last.filePath =
              Rel((CASE popExt(last.hint) \in {"tsx", "jsx"} -> <<"src", "components">>
                     [] popExt(last.hint) \in {"css", "scss"} -> <<"src", "styles">>
                     [] popExt(last.hint) = "html" -> <<"public">>
                     [] popExt(last.hint) = "md" -> <<"docs">>
                     [] OTHER -> <<"src">>) \o last.hint.segs)

\* C17: the language that processArtifact uses and reports is the one that
\* the table of detectLanguage gives for the extension of the resolved path,
\* 'text' when the table does not have it.
C17_LanguageOfResolvedPath ==
    (last.kind = "processArtifact" /\ last.outcome = "ok")
        => last.language = detectLanguage(last.filePath)

\* content is "{}" or an object in the form of JSON.stringify(value, null, 2):
\* the braces on lines of their own, each member after two spaces, a comma
\* after each member but the last
IsTwoSpaceForm(content) ==
    \/ ContentCodes(content) = <<123, 125>>
    \/ /\ Len(content) >= 3
       /\ LineCodes(content[1]) = <<123>>
       /\ LineCodes(content[Len(content)]) = <<125>>
       /\ \A i \in 2..(Len(content) - 1) :
             LET codes == LineCodes(content[i]) IN
             /\ Len(codes) > 3
             /\ codes[1] = 32 /\ codes[2] = 32 /\ codes[3] # 32
             /\ (codes[Len(codes)] = 44) <=> (i < Len(content) - 1)

\* C18: processContent with language 'json' never throws for a text: it
\* counts a success and no failure; a text that does not parse comes back as
\* it is after the decoration is stripped, and a text that parses comes back
\* as the same value in the 2-space form.
C18_JsonNeverAborts ==
    (/\ last.kind = "processContent" /\ last.language = "json"
     /\ last.rawContent # NoContent)
        => LET stripped == removePathDecoration(last.rawContent)
               parsed == jsonParse(stripped)
           IN /\ last.outcome = "ok"
              /\ successfulExtractions = last.successAtStart + 1
              /\ failedExtractions = last.failedAtStart
              /\ IF parsed.ok
                 THEN /\ IsTwoSpaceForm(last.content)
                      /\ jsonParse(last.content) = parsed
                 ELSE last.content = stripped

\* processContent has returned, for 'json', a compact text in the 2-space
\* form and then a truncated text as it was under its decoration
C18_Witness ==
    /\ last.kind = "processContent" /\ last.language = "json" /\ last.outcome = "ok"
    /\ last.rawContent = JsonTruncatedDecorated
    /\ last.content = JsonTruncated
    /\ successfulExtractions = 2

\* C19: the ledger has one entry for each pair <<path, hash>> recorded since
\* it was last cleared, and hasBeenProcessed is true of these pairs only;
\* recording a pair sets the time of its entry to the time of the call, adds
\* an entry only when the pair is new and leaves the other entries alone.
C19_LedgerOneEntryPerPair ==
    [][/\ Cardinality(DOMAIN processedFiles') = Cardinality(recorded')
       /\ \A filePath \in ArtifactNames, content \in ArtifactContents :
             LET contentHash == generateContentHash(content) IN
             (ledgerKey(filePath, contentHash) \in DOMAIN processedFiles')
                 <=> (<<filePath, contentHash>> \in recorded')
       /\ (nWrites' # nWrites /\ last'.kind = "processArtifact" /\ last'.outcome = "ok")
             => LET key == ledgerKey(last'.hint, generateContentHash(last'.rawContent)) IN
                /\ processedFiles'[key].timestamp = now
                /\ \A k \in (DOMAIN processedFiles) \ {key} :
                      processedFiles'[k] = processedFiles[k]
                /\ Cardinality(DOMAIN processedFiles')
                      = Cardinality(DOMAIN processedFiles)
                            + (IF last'.sawExisting THEN 0 ELSE 1)]_vars

\* a pair was recorded a second time, later than the first, and the ledger
\* has its one entry with the later time
C19_Witness ==
    /\ last.kind = "processArtifact" /\ last.outcome = "ok" /\ last.sawExisting
    /\ now > 1
    /\ Cardinality(DOMAIN processedFiles) = 1
    /\ \A k \in DOMAIN processedFiles : processedFiles[k].timestamp = now

\* C27: processContent strips the first line exactly when the path it returns
\* was taken from that line: never while it returns the fallback or the token
\* of another line, and never the other way round.
C27_StripIffPathFromFirstLine ==
    Processed
        => ((removePathDecoration(last.rawContent) # last.rawContent)
               <=> (/\ MatchesPathPattern(last.rawContent[1], last.rawContent[1].style)
                    /\ last.rawContent[1].style \in {"slash", "hash", "html", "block",
                                                     "dash", "bare"}
                    /\ last.filePath = last.rawContent[1].path))

\* C29: for the same content and file name the download path (processArtifact,
\* then writeFile to the file name) and the blob path (processContent, then
\* writeFile to the path it returns) write the same body to the same path.
C29_DownloadEqualsBlob ==
    (last.kind = "processArtifact" /\ last.outcome = "ok")
        => LET blob == processContent(last.rawContent, last.hint, last.language) IN
           /\ blob.filePath = last.hint
           /\ blob.content = last.content

\* C25: totalProcessed = successfulExtractions + failedExtractions whenever no
\* processContent call is in progress (the call has no await, so in every
\* state), and each completed processContent call raises totalProcessed by one
\* and exactly one of the other two counters by one.
C25_CountersAddUp ==
    [][/\ totalProcessed' = successfulExtractions' + failedExtractions'
       /\ (<<totalProcessed, successfulExtractions, failedExtractions>>'
               # <<totalProcessed, successfulExtractions, failedExtractions>>
            /\ ~ResetStep)
              => /\ totalProcessed' = totalProcessed + 1
                 /\ \/ /\ successfulExtractions' = successfulExtractions + 1
                       /\ failedExtractions' = failedExtractions
                    \/ /\ failedExtractions' = failedExtractions + 1
                       /\ successfulExtractions' = successfulExtractions]_vars

\* a processContent call has failed and another has succeeded
C25_Witness ==
    /\ failedExtractions > 0
    /\ successfulExtractions > 0
    /\ totalProcessed = successfulExtractions + failedExtractions

\* C21: a download whose (path, content hash) pair is already in the ledger is
\* processed and written like a first one: the counters move, and unless the
\* write itself fails the destination holds the processed content.
C21_LedgerNeverSuppresses ==
    (last.kind = "download" /\ last.knownAtStart /\ InFlight = 0)
        => LET result == processContent(last.rawContent, last.filePath,
                                        detectLanguage(last.filePath))
           IN /\ last.countersTouched
              /\ ~isEmptyString(result.content)
                    => /\ last.absolutePath = resolveFilePath(projectRoot, last.filePath)
                       /\ last.outcome = "ok"
                             => /\ IsFile(last.absolutePath)
                                /\ files[last.absolutePath].content = result.content

\* a download of a pair that was in the ledger has been written
C21_Witness ==
    /\ last.kind = "download" /\ last.knownAtStart /\ InFlight = 0
    /\ last.outcome = "ok"
    /\ IsFile(last.absolutePath)
    /\ files[last.absolutePath].content = last.content
    /\ ~isEmptyString(last.content)

\* C22: a ledger entry is created only in the step that completes the file
\* write of a submission, keyed by the path that was written, and every
\* submission that was written, through either entry point, has a ledger
\* entry for its path once its write has completed.
C22_RecordAfterWrite ==
    [][LET written == /\ last' # last
                      /\ last'.kind \in {"submit", "download"}
                      /\ last'.outcome = "ok"
                      /\ last'.absolutePath # NullDir
       IN /\ \A k \in DOMAIN processedFiles' \ DOMAIN processedFiles :
                written /\ processedFiles'[k].filePath = last'.filePath
          /\ written => \E k \in DOMAIN processedFiles' :
                            processedFiles'[k].filePath = last'.filePath]_vars

\* C23: a submission that repeats the one completed just before it (the same
\* content, suggested name and language) goes to the same destination, leaves
\* there the bytes the first one left, and at no step changes a file other
\* than the backups it makes.
C23_ResubmissionIdempotent ==
    [][\A s \in Slots :
          (reqs[s].kind = "submit" /\ reqs[s].resubmission)
              => /\ reqs[s].absolutePath = last.absolutePath
                 /\ reqs[s].content = last.content
                 /\ \A p \in (DOMAIN files) \cup (DOMAIN files') :
                       \/ IsPrefix(backupDir, p)
                       \/ /\ p \in DOMAIN files /\ p \in DOMAIN files'
                          /\ files'[p].content = files[p].content
                 /\ (Completes(s) /\ last'.outcome = "ok")
                       => files'[last'.absolutePath].content = last.content]_vars

\* a submission that repeated the one before it has been written over the
\* file the first one made, after a backup of it
C23_Witness ==
    /\ last.kind = "submit" /\ last.resubmission /\ last.outcome = "ok"
    /\ last.sawExisting /\ last.backupPath # NullDir
    /\ IsFile(last.backupPath)
    /\ files[last.absolutePath].content = last.content

\* C26: once every set-project request has completed, the service's
\* projectRoot and the FileManager's projectRoot name the same directory (both
\* unset, or the root of one and the same request) and backupDir is the
\* .claude-backups directory of that root.  Stated for the runs in which no
\* request failed: a request for each root has made its .claude-backups.
C26_RootsAgree ==
    (/\ InFlight = 0
     /\ \A root \in RaceRoots : IsDir(pathJoin(root, <<".claude-backups">>)))
        => /\ serviceProjectRoot = projectRoot
           /\ backupDir = IF projectRoot = NullDir THEN NullDir
                          ELSE pathJoin(projectRoot, <<".claude-backups">>)

\* C24: once the project root is set, a registered download whose file is in
\* the downloads directory is eventually processed, written into the project
\* and removed from the pending downloads.
C24_PendingEventuallyProcessed ==
    \A filename \in DownloadNames :
        (/\ serviceProjectRoot # NullDir
         /\ \E e \in monitor.pendingDownloads : e.filename = filename
         /\ filename \in DOMAIN monitor.downloadsDir)
            ~> (/\ \A e \in monitor.pendingDownloads : e.filename # filename
                /\ IsFile(resolveFilePath(projectRoot, filename)))

\* C28: processArtifact is called at most once for a pending download, also
\* when a poll begins while an earlier one is awaiting.
C28_ProcessedAtMostOnce ==
    \A o \in 1..MaxRegistered : monitor.handled[o] <= 1

\* C30: extractedCount is incremented for an artifact only if a request for
\* that artifact got a successful response from the local service, so it
\* never exceeds the number of artifacts accepted, and it never exceeds
\* totalArtifacts.
C30_CountedOnlyWhenAccepted ==
    /\ page.extractedCount <= page.accepted
    /\ page.extractedCount <= page.totalArtifacts

====
